---- MODULE Spec2Model ----
(***************************************************************************)
(* Model of azure-devops-mcp-docker.                                       *)
(*                                                                         *)
(*  - The stdio-to-HTTP JSON-RPC relay (the proxy script, lines 66-235 of  *)
(*    src/unnamed/part_000): specification Spec, and FairSpec which adds   *)
(*    the fairness of the socket timeout.                                  *)
(*  - The per-tenant MCP client pool (MCPClientManager,                    *)
(*    src/unnamed/part_001): specifications PoolSpec (creation), SweepSpec *)
(*    (the sweep, the shutdown and callTool), QuerySpec (the read-only     *)
(*    calls), StuckSpec (a backend that may never answer) and KeySpec      *)
(*    (contexts whose fields contain the separator of the cache key).      *)
(*  - The routes of the server that call the pool (the Server class quoted *)
(*    in src/README.md): BatchSpec (POST /api/tools/batch) and McpSpec     *)
(*    (POST /api/mcp).                                                     *)
(*                                                                         *)
(* The two programs run in different processes and share no state, so each *)
(* specification leaves the other program's variables unchanged.           *)
(***************************************************************************)
EXTENDS Integers, Sequences, FiniteSets, TLC

\* Bounds of the relay model.
MaxFed == 4      \* characters read from stdin over the whole run

VARIABLES
    messageBuffer,  \* let messageBuffer: input text not yet cut into lines
    reqs,           \* the HTTP requests made so far, one record per sendToServer call
    out,            \* the lines written to stdout, in order
    exited,         \* process.exit has been called
    processed,      \* history: the texts handed to processMessage, in order
    fed,            \* history: concatenation of all stdin chunks
    carried,        \* history: a message was put together from several chunks
    clients,        \* MCPClientManager.clients: the Map, as its entries in insertion order
    conns,          \* every Client object created so far, indexed by identity
    calls,          \* the getOrCreateClient calls started so far, each with its position
    now,            \* the clock new Date() reads
    sweeps,         \* the cleanupUnusedClients calls started so far
    cleanups,       \* the cleanup calls started so far
    answer,         \* history: the last isReady, getTools or getTool call and its value
    handlers        \* the HTTP requests the server's routes have taken, each with its position

relayVars == <<messageBuffer, reqs, out, exited, processed, fed, carried>>
poolVars == <<clients, conns, calls, now, sweeps, cleanups, answer, handlers>>
vars == <<messageBuffer, reqs, out, exited, processed, fed, carried,
          clients, conns, calls, now, sweeps, cleanups, answer, handlers>>

(***************************************************************************)
(* Text.  A text is a sequence of characters.  "\n" and " " are themselves;*)
(* every other character stands for a run of non-blank characters: a whole *)
(* JSON document (see ValueOf) or, for "x", text that is no JSON.          *)
(***************************************************************************)
NL == "\n"
SP == " "
WhiteSpace == {SP, NL}

\* Characters the client may write on stdin.
InputChars == {NL, SP, "R7", "Rnull", "N", "null", "x"}

\* Characters the backend may put in a response body.
BodyChars == {SP, "B1", "B2", "B3", "null", "5", "[]", "x"}

\* The response bodies the backend may send, each arriving character by
\* character: nothing, a blank, one document, text that is no JSON, a
\* document after a blank.
Bodies == {<<>>} \cup {<<c>> : c \in BodyChars} \cup {<<SP, "B1">>, <<"x", "x">>}

IsPrefix(s, t) == Len(s) <= Len(t) /\ SubSeq(t, 1, Len(s)) = s

Min(S) == CHOOSE m \in S : \A n \in S : m <= n
Max(S) == CHOOSE m \in S : \A n \in S : m >= n

\* String.prototype.indexOf('\n'), 1-based; 0 where JavaScript gives -1.
IndexOf(s, c) ==
    IF \E i \in 1..Len(s) : s[i] = c
    THEN Min({i \in 1..Len(s) : s[i] = c})
    ELSE 0

\* String.prototype.trim
Trim(s) ==
    LET keep == {i \in 1..Len(s) : s[i] \notin WhiteSpace}
    IN IF keep = {} THEN <<>> ELSE SubSeq(s, Min(keep), Max(keep))

(***************************************************************************)
(* JSON values, as JavaScript holds them after JSON.parse.                 *)
(***************************************************************************)
Undefined == [kind |-> "undefined", fields |-> <<>>, text |-> "", num |-> 0]
JNull == [kind |-> "null", fields |-> <<>>, text |-> "", num |-> 0]
JNum(n) == [kind |-> "number", fields |-> <<>>, text |-> "", num |-> n]
JStr(s) == [kind |-> "string", fields |-> <<>>, text |-> s, num |-> 0]
JObj(f) == [kind |-> "object", fields |-> f, text |-> "", num |-> 0]
\* An array; fields holds the non-index properties assigned to it.
JArr(f) == [kind |-> "array", fields |-> f, text |-> "[]", num |-> 0]

HasKey(f, k) == \E i \in 1..Len(f) : f[i][1] = k
KeyIndex(f, k) == CHOOSE i \in 1..Len(f) : f[i][1] = k

\* Reading v.k throws a TypeError when v is null or undefined.
CanRead(v) == v.kind \notin {"null", "undefined"}

\* v.k
GetProp(v, k) ==
    IF v.kind \in {"object", "array"} /\ HasKey(v.fields, k)
    THEN v.fields[KeyIndex(v.fields, k)][2]
    ELSE Undefined

\* v.k = x in sloppy mode: an existing key keeps its place, a new key goes
\* last, and the assignment to a property of a primitive is dropped.
SetProp(v, k, x) ==
    IF v.kind \in {"object", "array"}
    THEN [v EXCEPT !.fields =
            IF HasKey(@, k) THEN [@ EXCEPT ![KeyIndex(@, k)] = <<k, x>>]
            ELSE Append(@, <<k, x>>)]
    ELSE v

\* !v
Falsy(v) ==
    \/ v.kind \in {"undefined", "null"}
    \/ v.kind = "number" /\ v.num = 0
    \/ v.kind = "string" /\ v.text = ""

DefinedField(p) == p[2].kind # "undefined"

\* JSON.stringify, as the value the reader of the line gets back: an object
\* loses its undefined-valued keys, an array loses its non-index properties.
Stringify(v) ==
    CASE v.kind = "object" -> JObj(SelectSeq(v.fields, DefinedField))
      [] v.kind = "array" -> JArr(<<>>)
      [] OTHER -> v

\* The JSON document a character stands for.
ValueOf(c) ==
    CASE c = "R7" -> JObj(<< <<"jsonrpc", JStr("2.0")>>, <<"id", JNum(7)>>,
                            <<"method", JStr("tools/list")>> >>)
      [] c = "Rnull" -> JObj(<< <<"jsonrpc", JStr("2.0")>>, <<"id", JNull>>,
                               <<"method", JStr("tools/call")>> >>)
      [] c = "N" -> JObj(<< <<"jsonrpc", JStr("2.0")>>,
                           <<"method", JStr("notify")>> >>)
      [] c = "B1" -> JObj(<< <<"jsonrpc", JStr("2.0")>>,
                            <<"result", JObj(<< <<"tools", JArr(<<>>)>> >>)>> >>)
      [] c = "B2" -> JObj(<< <<"id", JNum(99)>>,
                            <<"error", JObj(<< <<"code", JNum(-32601)>>,
                                               <<"message", JStr("Method not found")>> >>)>> >>)
      [] c = "B3" -> JObj(<< <<"jsonrpc", JNull>>, <<"id", JStr("srv")>>,
                            <<"result", JStr("ok")>> >>)
      [] c = "null" -> JNull
      [] c = "5" -> JNum(5)
      [] c = "[]" -> JArr(<<>>)
      [] OTHER -> Undefined

JsonChars == {"R7", "Rnull", "N", "B1", "B2", "B3", "null", "5", "[]"}

\* JSON.parse: blanks around the document are skipped; anything but exactly
\* one document throws a SyntaxError.
JsonParse(text) ==
    LET t == Trim(text)
    IN IF Len(t) = 1 /\ t[1] \in JsonChars
       THEN [ok |-> TRUE, value |-> ValueOf(t[1]), message |-> ""]
       ELSE [ok |-> FALSE, value |-> Undefined,
             message |-> IF t = <<>> THEN "Unexpected end of JSON input"
                         ELSE "Unexpected token"]

\* The TypeError of reading a property of null.
NullReadMessage == "Cannot read properties of null"

NoError == ""

\* { jsonrpc: '2.0', id: id, error: { code: code, message: message } }
ErrorResponse(id, code, message) ==
    JObj(<< <<"jsonrpc", JStr("2.0")>>, <<"id", id>>,
            <<"error", JObj(<< <<"code", JNum(code)>>,
                               <<"message", JStr(message)>> >>)>> >>)

(***************************************************************************)
(* The relay: processMessage and the sendToServer callback.                *)
(***************************************************************************)
\* Mutant: the test is written against null instead of undefined.
IsNotificationNullOnly(requestId) == requestId = JNull

\* const isNotification = requestId === undefined
IsNotification(requestId) == requestId = Undefined

\* Mutant: the body is not trimmed before the test.
IsEmptyResponseUntrimmed(responseData) == responseData = <<>>

\* !responseData || !responseData.trim()
IsEmptyResponse(responseData) == responseData = <<>> \/ Trim(responseData) = <<>>

\* if (!response.jsonrpc) response.jsonrpc = '2.0'
EnsureJsonRpc(response) ==
    IF Falsy(GetProp(response, "jsonrpc"))
    THEN SetProp(response, "jsonrpc", JStr("2.0"))
    ELSE response

\* response.id = requestId
OverwriteId(response, requestId) == SetProp(response, "id", requestId)

\* Mutant: the outer catch answers with the invalid-request code.
RequestParseErrorInvalidRequest(message) ==
    ErrorResponse(JNull, -32600, "Invalid JSON request: " \o message)

\* The error line of the outer catch of processMessage.
RequestParseError(message) ==
    ErrorResponse(JNull, -32700, "Invalid JSON request: " \o message)

\* Mutant: a failed forward is answered with the invalid-request code.
TransportErrorInvalidRequest(requestId, message) == ErrorResponse(requestId, -32600, message)

\* The error line for a failed or timed out forward.
TransportError(requestId, message) == ErrorResponse(requestId, -32603, message)

\* The error line for an empty answer.
EmptyResponseError(requestId) ==
    ErrorResponse(requestId, -32603, "Empty response from server")

\* Mutant: the inner catch answers with the internal-error code.
ResponseParseErrorInternal(requestId, message) ==
    ErrorResponse(requestId, -32603, "Invalid JSON response: " \o message)

\* Mutant: the inner catch passes the parser's message on as it is.
ResponseParseErrorBare(requestId, message) == ErrorResponse(requestId, -32700, message)

\* The error line of the inner catch of the callback.
ResponseParseError(requestId, message) ==
    ErrorResponse(requestId, -32700, "Invalid JSON response: " \o message)

\* process.stdout.write(JSON.stringify(v) + '\n'), with the history of which
\* message and which branch of the code wrote the line.
Written(v, msg, path) == [line |-> Stringify(v), msg |-> msg, path |-> path]

\* sendToServer(message, callback) up to req.end(): the request is on the wire.
sendToServer(message, requestId, msg) ==
    [msg |-> msg,
     postData |-> Stringify(message),
     requestId |-> requestId,
     isNotification |-> IsNotification(requestId),
     st |-> "sent",
     responseData |-> <<>>]

\* The callback processMessage hands to sendToServer: the lines it writes.
Callback(r, error, responseData) ==
    IF error # NoError THEN
        IF ~r.isNotification
        THEN <<Written(TransportError(r.requestId, error), r.msg, "transport")>>
        ELSE <<>>
    ELSE IF IsEmptyResponse(responseData) THEN
        IF r.isNotification THEN <<>>
        ELSE <<Written(EmptyResponseError(r.requestId), r.msg, "empty")>>
    ELSE LET p == JsonParse(responseData) IN
        IF ~p.ok THEN
            IF ~r.isNotification
            THEN <<Written(ResponseParseError(r.requestId, p.message), r.msg, "payload")>>
            ELSE <<>>
        ELSE IF r.isNotification THEN <<>>
        ELSE IF ~CanRead(p.value) THEN
            \* !response.jsonrpc throws on null; the inner catch answers
            <<Written(ResponseParseError(r.requestId, NullReadMessage), r.msg, "payload")>>
        ELSE <<Written(OverwriteId(EnsureJsonRpc(p.value), r.requestId), r.msg, "success")>>

\* processMessage(messageText) on the relay state s = [reqs, out, processed].
processMessage(messageText, s) ==
    LET p == JsonParse(messageText)
        n == Len(s.processed) + 1
        s1 == [s EXCEPT !.processed = Append(@, messageText)]
    IN IF ~p.ok THEN
           [s1 EXCEPT !.out = Append(@, Written(RequestParseError(p.message), n, "framing"))]
       ELSE IF ~CanRead(p.value) THEN
           \* message.id throws on null; the outer catch answers
           [s1 EXCEPT !.out = Append(@, Written(RequestParseError(NullReadMessage), n, "framing"))]
       ELSE
           [s1 EXCEPT !.reqs = Append(@, sendToServer(p.value, GetProp(p.value, "id"), n))]

\* Mutant: the chunk replaces the buffer instead of being appended to it.
AppendChunkOverwrite(buffer, data) == data

\* messageBuffer += data.toString()
AppendChunk(buffer, data) == buffer \o data

\* messageBuffer.slice(0, newlineIndex).trim()
LineText(buffer, newlineIndex) == Trim(SubSeq(buffer, 1, newlineIndex - 1))

\* messageBuffer.slice(newlineIndex + 1)
Remainder(buffer, newlineIndex) == SubSeq(buffer, newlineIndex + 1, Len(buffer))

\* The while loop of the 'data' handler.
RECURSIVE Drain(_, _)
Drain(buffer, s) ==
    LET newlineIndex == IndexOf(buffer, NL)
    IN IF newlineIndex = 0 THEN [s EXCEPT !.messageBuffer = buffer]
       ELSE LET messageText == LineText(buffer, newlineIndex)
            IN Drain(Remainder(buffer, newlineIndex),
                     IF messageText # <<>> THEN processMessage(messageText, s) ELSE s)

\* A chunk is any non-empty text, here of at most n characters: the stream
\* cuts the input where it likes.
Chunks(n) == UNION {[1..k -> InputChars] : k \in 1..n}

\* process.stdin.on('data', ...)
StdinData(data) ==
    /\ ~exited
    /\ Len(fed) + Len(data) <= MaxFed
    /\ LET s == Drain(AppendChunk(messageBuffer, data),
                      [messageBuffer |-> messageBuffer, reqs |-> reqs,
                       out |-> out, processed |-> processed])
       IN /\ messageBuffer' = s.messageBuffer
          /\ reqs' = s.reqs
          /\ out' = s.out
          /\ processed' = s.processed
    /\ fed' = fed \o data
    /\ carried' = (carried \/ (Trim(messageBuffer) # <<>> /\ IndexOf(data, NL) # 0))
    /\ UNCHANGED exited
    /\ UNCHANGED poolVars

\* The response callback of http.request: the status line and headers arrived.
Response(i) ==
    /\ ~exited
    /\ i \in DOMAIN reqs
    /\ reqs[i].st = "sent"
    /\ reqs' = [reqs EXCEPT ![i].st = "receiving"]
    /\ UNCHANGED <<messageBuffer, out, exited, processed, fed, carried>>
    /\ UNCHANGED poolVars

\* res.on('data', ...)
ResData(i, chunk) ==
    /\ ~exited
    /\ i \in DOMAIN reqs
    /\ reqs[i].st = "receiving"
    /\ \E b \in Bodies : IsPrefix(reqs[i].responseData \o <<chunk>>, b)
    /\ reqs' = [reqs EXCEPT ![i].responseData = @ \o <<chunk>>]
    /\ UNCHANGED <<messageBuffer, out, exited, processed, fed, carried>>
    /\ UNCHANGED poolVars

\* res.on('end', ...)
ResEnd(i) ==
    /\ ~exited
    /\ i \in DOMAIN reqs
    /\ reqs[i].st = "receiving"
    /\ reqs' = [reqs EXCEPT ![i].st = "ended"]
    /\ out' = out \o Callback(reqs[i], NoError, reqs[i].responseData)
    /\ UNCHANGED <<messageBuffer, exited, processed, fed, carried>>
    /\ UNCHANGED poolVars

\* req.on('error', ...) for a connection that fails or is reset.  The
\* response, if one had begun, is aborted: it emits no 'end' and what it
\* had collected in responseData is never read again.
ReqError(i) ==
    /\ ~exited
    /\ i \in DOMAIN reqs
    /\ reqs[i].st \in {"sent", "receiving"}
    /\ reqs' = [reqs EXCEPT ![i].st = "failed", ![i].responseData = <<>>]
    /\ out' = out \o Callback(reqs[i], "read ECONNRESET", <<>>)
    /\ UNCHANGED <<messageBuffer, exited, processed, fed, carried>>
    /\ UNCHANGED poolVars

\* req.on('timeout', ...): req.destroy(), then callback(new Error('Timeout')).
\* Destroying a request that has no response yet makes it emit 'error'
\* (socket hang up) afterwards; one whose response has begun only aborts it,
\* and what that had collected in responseData is never read again.
ReqTimeout(i) ==
    /\ ~exited
    /\ i \in DOMAIN reqs
    /\ reqs[i].st \in {"sent", "receiving"}
    /\ reqs' = [reqs EXCEPT ![i].st = IF @ = "sent" THEN "destroyed" ELSE "aborted",
                             ![i].responseData = <<>>]
    /\ out' = out \o Callback(reqs[i], "Timeout", <<>>)
    /\ UNCHANGED <<messageBuffer, exited, processed, fed, carried>>
    /\ UNCHANGED poolVars

\* req.on('error', ...) for the error the destroyed request emits.
HangUp(i) ==
    /\ ~exited
    /\ i \in DOMAIN reqs
    /\ reqs[i].st = "destroyed"
    /\ reqs' = [reqs EXCEPT ![i].st = "failed"]
    /\ out' = out \o Callback(reqs[i], "socket hang up", <<>>)
    /\ UNCHANGED <<messageBuffer, exited, processed, fed, carried>>
    /\ UNCHANGED poolVars

\* Mutant: the text left in the buffer is handled as a last line before
\* the exit.
StdinEndFlushing ==
    /\ ~exited
    /\ exited' = TRUE
    /\ LET s == Drain(AppendChunk(messageBuffer, <<NL>>),
                      [messageBuffer |-> messageBuffer, reqs |-> reqs,
                       out |-> out, processed |-> processed])
       IN /\ messageBuffer' = s.messageBuffer
          /\ reqs' = s.reqs
          /\ out' = s.out
          /\ processed' = s.processed
    /\ UNCHANGED <<fed, carried>>
    /\ UNCHANGED poolVars

\* process.stdin.on('end', () => process.exit(0))
StdinEnd ==
    /\ ~exited
    /\ exited' = TRUE
    /\ UNCHANGED <<messageBuffer, reqs, out, processed, fed, carried>>
    /\ UNCHANGED poolVars

RelayInit ==
    /\ messageBuffer = <<>>
    /\ reqs = <<>>
    /\ out = <<>>
    /\ exited = FALSE
    /\ processed = <<>>
    /\ fed = <<>>
    /\ carried = FALSE

Next ==
    \/ \E data \in Chunks(MaxFed - Len(fed)) : StdinData(data)
    \/ \E i \in DOMAIN reqs : Response(i)
    \/ \E i \in DOMAIN reqs, chunk \in BodyChars : ResData(i, chunk)
    \/ \E i \in DOMAIN reqs : ResEnd(i)
    \/ \E i \in DOMAIN reqs : ReqError(i)
    \/ \E i \in DOMAIN reqs : ReqTimeout(i)
    \/ \E i \in DOMAIN reqs : HangUp(i)
    \/ StdinEnd

(***************************************************************************)
(* The client pool: MCPClientManager.                                      *)
(***************************************************************************)
\* Bounds of the pool model.
MaxCalls == 3     \* getOrCreateClient and callTool calls over the whole run
MaxTime == 2      \* clock ticks
MaxSweeps == 1    \* cleanupUnusedClients calls over the whole run
MaxCleanups == 1  \* cleanup calls over the whole run
MaxSweepCalls == 2  \* getOrCreateClient and callTool calls of a run with sweeps

\* Every call is an asynchronous invocation of its own; calls[p] is the p-th
\* call started.
Callers == 1..MaxCalls

\* An absent (undefined) or empty string field: both are falsy.
Absent == <<>>

\* The authentication contexts of the model: a text is a sequence of
\* characters, "stdio" and "http" standing for those words.
Context(org, type, url) ==
    [azureDevOpsOrg |-> org, mcpTransportType |-> type, mcpServerUrl |-> url]

Contexts ==
    { Context(Absent, <<"stdio">>, Absent),
      Context(<<"a">>, Absent, Absent),
      Context(<<"a">>, <<"stdio">>, Absent),
      Context(<<"a">>, <<"http">>, Absent),
      Context(<<"a">>, <<"http">>, <<"u">>) }

\* x || d
OrElse(x, d) == IF x = Absent THEN d ELSE x

\* generateAuthCacheKey: parts.join('|')
generateAuthCacheKey(authContext) ==
    OrElse(authContext.azureDevOpsOrg, <<>>) \o <<"|">>
        \o OrElse(authContext.mcpTransportType, <<"stdio">>) \o <<"|">>
        \o OrElse(authContext.mcpServerUrl, <<>>)

\* Map.has, Map.get and Map.set on the entries of the Map.
MapHas(m, key) == \E k \in 1..Len(m) : m[k].key = key
MapGet(m, key) == m[CHOOSE k \in 1..Len(m) : m[k].key = key].value
MapSet(m, key, value) ==
    IF MapHas(m, key)
    THEN [k \in 1..Len(m) |-> IF m[k].key = key THEN [key |-> key, value |-> value] ELSE m[k]]
    ELSE Append(m, [key |-> key, value |-> value])

\* Map.delete of each of a set of keys.
KeptEntries(m, keys) == {k \in 1..Len(m) : m[k].key \notin keys}
RECURSIVE EntriesAt(_, _)
EntriesAt(m, at) ==
    IF at = {} THEN <<>>
    ELSE <<m[Min(at)]>> \o EntriesAt(m, at \ {Min(at)})
MapDeleteAll(m, keys) == EntriesAt(m, KeptEntries(m, keys))

\* A Map iterator that has passed pos entries: how many of them are left
\* once the entries of keys are deleted.  The iterator goes on with the
\* entry after them, so a deletion makes it neither skip nor repeat one.
Shift(m, pos, keys) == Cardinality({k \in 1..pos : m[k].key \notin keys})

\* The tool catalogs a backend may answer listTools with.
Catalogs == {<<>>, <<"list_projects">>}

\* The tool names a caller may ask for.
ToolNames == {"list_projects", "delete_repo"}

\* The authentication contexts callTool is called with.
ToolContexts ==
    { Context(<<"a">>, <<"stdio">>, Absent) }

\* The maxAgeMinutes a sweep is called with, in clock ticks.
MaxAges == {0, 1}

NoCall == [pc |-> "idle", authContext |-> Context(Absent, Absent, Absent),
           tool |-> "", cacheKey |-> <<>>, client |-> 0, result |-> 0, error |-> ""]

\* new Client(...) with its transport, before client.connect.
NewClient(cacheKey) ==
    [key |-> cacheKey, st |-> "connecting", opened |-> FALSE,
     fetched |-> FALSE, listed |-> <<>>]

\* Mutant: the instance is stored with an empty catalog and not initialized.
ClientInstanceNotLoaded(client, tools) ==
    [client |-> client, tools |-> <<>>, isInitialized |-> FALSE, lastUsed |-> now]

\* The clientInstance object literal of createStdioClient / createHttpClient.
ClientInstance(client, tools) ==
    [client |-> client, tools |-> tools, isInitialized |-> TRUE, lastUsed |-> now]

\* clientInstance && clientInstance.isInitialized
CacheHit(cacheKey) == MapHas(clients, cacheKey) /\ MapGet(clients, cacheKey).isInitialized

\* Where a call goes on once it has its instance: getOrCreateClient returns
\* it; callTool calls client.callTool on it.
AfterRetrieval(call) == IF call.tool = "" THEN "returned" ELSE "invoke"

\* !authContext.azureDevOpsOrg
MissingOrganization(authContext) == authContext.azureDevOpsOrg = Absent

\* Mutant: the server URL is never asked for.
MissingServerUrlUnchecked(authContext) == FALSE

\* authContext.mcpTransportType === 'http' and then, in createHttpClient,
\* !authContext.mcpServerUrl
MissingServerUrl(authContext) ==
    /\ authContext.mcpTransportType = <<"http">>
    /\ authContext.mcpServerUrl = Absent

\* The body of getOrCreateClient(authContext) up to its first await, for the
\* p-th call, whose record so far is call: the checks, the cache lookup and,
\* on a miss, the new transport and Client and the call of client.connect.
getOrCreateClient(p, call) ==
    LET authContext == call.authContext
        cacheKey == generateAuthCacheKey(authContext)
    IN IF MissingOrganization(authContext) THEN
           /\ calls' = Append(calls,
                 [call EXCEPT !.pc = "threw",
                              !.error = "Missing required Azure DevOps organization"])
           /\ UNCHANGED <<clients, conns>>
       ELSE IF CacheHit(cacheKey) THEN
           /\ clients' = MapSet(clients, cacheKey,
                                [MapGet(clients, cacheKey) EXCEPT !.lastUsed = now])
           /\ calls' = Append(calls,
                 [call EXCEPT !.pc = AfterRetrieval(call), !.cacheKey = cacheKey,
                              !.result = MapGet(clients, cacheKey).client])
           /\ UNCHANGED conns
       ELSE IF MissingServerUrl(authContext) THEN
           /\ calls' = Append(calls,
                 [call EXCEPT !.pc = "threw", !.cacheKey = cacheKey,
                              !.error = "MCP server URL is required for HTTP transport"])
           /\ UNCHANGED <<clients, conns>>
       ELSE
           /\ conns' = Append(conns, NewClient(cacheKey))
           /\ calls' = Append(calls,
                 [call EXCEPT !.pc = "connect", !.cacheKey = cacheKey,
                              !.client = Len(conns) + 1])
           /\ UNCHANGED clients

\* getOrCreateClient(authContext), called from outside the manager.
GetOrCreateClient(p, authContext) ==
    /\ p = Len(calls) + 1
    /\ p <= MaxCalls
    /\ getOrCreateClient(p, [NoCall EXCEPT !.authContext = authContext])
    /\ UNCHANGED <<now, sweeps, cleanups>>
    /\ UNCHANGED <<relayVars, answer, handlers>>

\* callTool(name, arguments_, authContext) with an authContext: it awaits
\* getOrCreateClient(authContext).
CallTool(p, name, authContext) ==
    /\ p = Len(calls) + 1
    /\ p <= MaxCalls
    /\ getOrCreateClient(p, [NoCall EXCEPT !.authContext = authContext, !.tool = name])
    /\ UNCHANGED <<now, sweeps, cleanups>>
    /\ UNCHANGED <<relayVars, answer, handlers>>

\* callTool(name, arguments_) without an authContext.
CallToolWithoutContext(p, name) ==
    /\ p = Len(calls) + 1
    /\ p <= MaxCalls
    /\ calls' = Append(calls,
          [NoCall EXCEPT !.pc = "threw", !.tool = name,
                         !.error = "Authentication context is required"])
    /\ UNCHANGED <<clients, conns, now, sweeps, cleanups>>
    /\ UNCHANGED <<relayVars, answer, handlers>>

\* await client.connect(transport) resolves; the stabilizing timer starts.
ConnectResolved(p) ==
    /\ p \in DOMAIN calls
    /\ calls[p].pc = "connect"
    /\ conns' = [conns EXCEPT ![calls[p].client].st = "connected",
                              ![calls[p].client].opened = TRUE]
    /\ calls' = [calls EXCEPT ![p].pc = "settle"]
    /\ UNCHANGED <<clients, now, sweeps, cleanups>>
    /\ UNCHANGED <<relayVars, answer, handlers>>

\* await client.connect(transport) rejects: the catch calls client.close().
ConnectRejected(p) ==
    /\ p \in DOMAIN calls
    /\ calls[p].pc = "connect"
    /\ calls' = [calls EXCEPT ![p].pc = "close", ![p].error = "connect failed"]
    /\ UNCHANGED <<clients, conns, now, sweeps, cleanups>>
    /\ UNCHANGED <<relayVars, answer, handlers>>

\* Mutant: creations take turns; one goes on to its catalog fetch only when
\* no earlier call is creating.
StabilizedInTurn(p) ==
    /\ p \in DOMAIN calls
    /\ calls[p].pc = "settle"
    /\ \A q \in 1..(p - 1) : calls[q].pc \notin {"connect", "settle", "listTools"}
    /\ calls' = [calls EXCEPT ![p].pc = "listTools"]
    /\ UNCHANGED <<clients, conns, now, sweeps, cleanups>>
    /\ UNCHANGED <<relayVars, answer, handlers>>

\* The setTimeout promise resolves; loadToolsForClient calls client.listTools.
Stabilized(p) ==
    /\ p \in DOMAIN calls
    /\ calls[p].pc = "settle"
    /\ calls' = [calls EXCEPT ![p].pc = "listTools"]
    /\ UNCHANGED <<clients, conns, now, sweeps, cleanups>>
    /\ UNCHANGED <<relayVars, answer, handlers>>

\* await client.listTools() resolves with toolsResponse.tools = tools: the
\* instance is cached and returned; callTool goes on to client.callTool.
ListToolsResolved(p, tools) ==
    /\ p \in DOMAIN calls
    /\ calls[p].pc = "listTools"
    /\ conns' = [conns EXCEPT ![calls[p].client].fetched = TRUE,
                              ![calls[p].client].listed = tools]
    /\ clients' = MapSet(clients, calls[p].cacheKey,
                         ClientInstance(calls[p].client, OrElse(tools, <<>>)))
    /\ calls' = [calls EXCEPT ![p].pc = AfterRetrieval(calls[p]),
                              ![p].result = calls[p].client]
    /\ UNCHANGED <<now, sweeps, cleanups>>
    /\ UNCHANGED <<relayVars, answer, handlers>>

\* Mutant: the instance is put into the Map before the catalog is fetched,
\* uninitialized, and the failure leaves it there.
ListToolsRejectedKeepsEntry(p) ==
    /\ p \in DOMAIN calls
    /\ calls[p].pc = "listTools"
    /\ clients' = MapSet(clients, calls[p].cacheKey,
                         [ClientInstance(calls[p].client, <<>>) EXCEPT !.isInitialized = FALSE])
    /\ calls' = [calls EXCEPT ![p].pc = "close", ![p].error = "listTools failed"]
    /\ UNCHANGED <<conns, now, sweeps, cleanups>>
    /\ UNCHANGED <<relayVars, answer, handlers>>

\* await client.listTools() rejects: the catch calls client.close().
ListToolsRejected(p) ==
    /\ p \in DOMAIN calls
    /\ calls[p].pc = "listTools"
    /\ calls' = [calls EXCEPT ![p].pc = "close", ![p].error = "listTools failed"]
    /\ UNCHANGED <<clients, conns, now, sweeps, cleanups>>
    /\ UNCHANGED <<relayVars, answer, handlers>>

\* await client.close() in the catch resolves; the original error is thrown.
CloseResolved(p) ==
    /\ p \in DOMAIN calls
    /\ calls[p].pc = "close"
    /\ conns' = [conns EXCEPT ![calls[p].client].st = "closed"]
    /\ calls' = [calls EXCEPT ![p].pc = "threw"]
    /\ UNCHANGED <<clients, now, sweeps, cleanups>>
    /\ UNCHANGED <<relayVars, answer, handlers>>

\* Mutant: the error of the failed close is thrown in place of the original
\* one.
CloseRejectedThrowsCleanupError(p) ==
    /\ p \in DOMAIN calls
    /\ calls[p].pc = "close"
    /\ conns' = [conns EXCEPT ![calls[p].client].st = "closeFailed"]
    /\ calls' = [calls EXCEPT ![p].pc = "threw", ![p].error = "close failed"]
    /\ UNCHANGED <<clients, now, sweeps, cleanups>>
    /\ UNCHANGED <<relayVars, answer, handlers>>

\* await client.close() in the catch rejects; the cleanup error is ignored
\* and the original error is thrown.
CloseRejected(p) ==
    /\ p \in DOMAIN calls
    /\ calls[p].pc = "close"
    /\ conns' = [conns EXCEPT ![calls[p].client].st = "closeFailed"]
    /\ calls' = [calls EXCEPT ![p].pc = "threw"]
    /\ UNCHANGED <<clients, now, sweeps, cleanups>>
    /\ UNCHANGED <<relayVars, answer, handlers>>

\* await clientInstance.client.callTool(...) resolves: callTool returns the
\* response.
ToolResolved(p) ==
    /\ p \in DOMAIN calls
    /\ calls[p].pc = "invoke"
    /\ calls' = [calls EXCEPT ![p].pc = "returned"]
    /\ UNCHANGED <<clients, conns, now, sweeps, cleanups>>
    /\ UNCHANGED <<relayVars, answer, handlers>>

\* await clientInstance.client.callTool(...) rejects: callTool rethrows.
ToolRejected(p) ==
    /\ p \in DOMAIN calls
    /\ calls[p].pc = "invoke"
    /\ calls' = [calls EXCEPT ![p].pc = "threw", ![p].error = "callTool failed"]
    /\ UNCHANGED <<clients, conns, now, sweeps, cleanups>>
    /\ UNCHANGED <<relayVars, answer, handlers>>

\* The entries after the first pos ones whose lastUsed is before the cutoff.
StaleAfter(pos, cutoffTime) ==
    {k \in (pos + 1)..Len(clients) : clients[k].value.lastUsed < cutoffTime}

Range(seq) == {seq[k] : k \in 1..Len(seq)}

\* The iterators of the other sweeps and cleanups after a deletion of keys:
\* those that are not done keep their place among the entries that stay.
ShiftSweeps(ss, keys) ==
    [t \in DOMAIN ss |->
        IF ss[t].pc = "closing" THEN [ss[t] EXCEPT !.pos = Shift(clients, @, keys)]
        ELSE ss[t]]

\* cleanupUnusedClients from the iterator's place pos on, for the sweep s of
\* ss: the for loop up to the next await of a close or, with no stale entry
\* left, to its end, followed by the deletion of keysToRemove.
SweepLoop(ss, s, pos) ==
    LET stale == StaleAfter(pos, ss[s].cutoffTime)
    IN IF stale # {} THEN
           LET k == Min(stale)
           IN /\ sweeps' = [ss EXCEPT ![s].pos = k,
                                      ![s].keysToRemove = Append(@, clients[k].key),
                                      ![s].closing = clients[k].value.client,
                                      ![s].closeCalls = @ \cup {clients[k].value.client},
                                      ![s].pc = "closing"]
              /\ UNCHANGED <<clients, cleanups>>
       ELSE
           LET keys == Range(ss[s].keysToRemove)
               done == [ss EXCEPT ![s].pos = 0, ![s].closing = 0, ![s].pc = "done"]
           IN /\ clients' = MapDeleteAll(clients, keys)
              /\ sweeps' = ShiftSweeps(done, keys)
              /\ cleanups' = ShiftSweeps(cleanups, keys)

\* cleanupUnusedClients(maxAgeMinutes) up to its first await.
CleanupUnusedClients(maxAgeMinutes) ==
    /\ Len(sweeps) < MaxSweeps
    /\ SweepLoop(Append(sweeps,
                    [maxAgeMinutes |-> maxAgeMinutes, cutoffTime |-> now - maxAgeMinutes,
                     pos |-> 0, keysToRemove |-> <<>>, closing |-> 0,
                     closeCalls |-> {}, pc |-> "closing"]),
                 Len(sweeps) + 1, 0)
    /\ UNCHANGED <<conns, calls, now>>
    /\ UNCHANGED <<relayVars, answer, handlers>>

\* await clientInstance.client.close() of a sweep resolves.
SweepCloseResolved(s) ==
    /\ s \in DOMAIN sweeps
    /\ sweeps[s].pc = "closing"
    /\ conns' = [conns EXCEPT ![sweeps[s].closing].st = "closed"]
    /\ SweepLoop(sweeps, s, sweeps[s].pos)
    /\ UNCHANGED <<calls, now>>
    /\ UNCHANGED <<relayVars, answer, handlers>>

\* Mutant: the rejection of a close is not caught and ends the sweep.
SweepCloseRejectedAborts(s) ==
    /\ s \in DOMAIN sweeps
    /\ sweeps[s].pc = "closing"
    /\ conns' = [conns EXCEPT ![sweeps[s].closing].st = "closeFailed"]
    /\ sweeps' = [sweeps EXCEPT ![s].pc = "threw"]
    /\ UNCHANGED <<clients, cleanups, calls, now>>
    /\ UNCHANGED <<relayVars, answer, handlers>>

\* await clientInstance.client.close() of a sweep rejects: the error is
\* logged and the loop goes on.
SweepCloseRejected(s) ==
    /\ s \in DOMAIN sweeps
    /\ sweeps[s].pc = "closing"
    /\ conns' = [conns EXCEPT ![sweeps[s].closing].st = "closeFailed"]
    /\ SweepLoop(sweeps, s, sweeps[s].pos)
    /\ UNCHANGED <<calls, now>>
    /\ UNCHANGED <<relayVars, answer, handlers>>

\* The iterators after clients.clear(): every entry they had passed or had
\* ahead is gone, and they go on with the entries set from now on.
ResetSweeps(ss) ==
    [t \in DOMAIN ss |-> IF ss[t].pc = "closing" THEN [ss[t] EXCEPT !.pos = 0] ELSE ss[t]]

\* cleanup() from the iterator's place pos on, for the cleanup c of cc: the
\* for loop up to the next await of a close or, at the end of the entries,
\* clients.clear().
CleanupLoop(cc, c, pos) ==
    IF pos < Len(clients) THEN
        /\ cleanups' = [cc EXCEPT ![c].pos = pos + 1,
                                  ![c].closing = clients[pos + 1].value.client]
        /\ UNCHANGED <<clients, sweeps>>
    ELSE
        /\ clients' = <<>>
        /\ cleanups' = ResetSweeps([cc EXCEPT ![c].pos = 0, ![c].closing = 0,
                                              ![c].pc = "done"])
        /\ sweeps' = ResetSweeps(sweeps)

\* cleanup() up to its first await.
Cleanup ==
    /\ Len(cleanups) < MaxCleanups
    /\ CleanupLoop(Append(cleanups,
                      [pos |-> 0, closing |-> 0, pc |-> "closing",
                       initial |-> {clients[k].value.client : k \in 1..Len(clients)}]),
                   Len(cleanups) + 1, 0)
    /\ UNCHANGED <<conns, calls, now>>
    /\ UNCHANGED <<relayVars, answer, handlers>>

\* await clientInstance.client.close() of a cleanup resolves.
CleanupCloseResolved(c) ==
    /\ c \in DOMAIN cleanups
    /\ cleanups[c].pc = "closing"
    /\ conns' = [conns EXCEPT ![cleanups[c].closing].st = "closed"]
    /\ CleanupLoop(cleanups, c, cleanups[c].pos)
    /\ UNCHANGED <<calls, now>>
    /\ UNCHANGED <<relayVars, answer, handlers>>

\* await clientInstance.client.close() of a cleanup rejects: the error is
\* logged and the loop goes on.
CleanupCloseRejected(c) ==
    /\ c \in DOMAIN cleanups
    /\ cleanups[c].pc = "closing"
    /\ conns' = [conns EXCEPT ![cleanups[c].closing].st = "closeFailed"]
    /\ CleanupLoop(cleanups, c, cleanups[c].pos)
    /\ UNCHANGED <<calls, now>>
    /\ UNCHANGED <<relayVars, answer, handlers>>

\* Time passes.
Tick ==
    /\ now < MaxTime
    /\ now' = now + 1
    /\ UNCHANGED <<clients, conns, calls, sweeps, cleanups>>
    /\ UNCHANGED <<relayVars, answer, handlers>>

\* The tool descriptors of the model.  Each stands for an MCPTool object;
\* "list_projects (v2)" is a second descriptor that carries the name
\* list_projects, and every other descriptor carries its own text as name.
NameOf(tool) == IF tool = "list_projects (v2)" THEN "list_projects" ELSE tool

\* The catalogs of a backend that lists two tools, with a name twice or not.
QueryCatalogs ==
    Catalogs \cup { <<"list_projects", "list_projects (v2)">>,
                    <<"delete_repo", "list_projects">> }

\* The value of clientInstance?.tools || [] and of
\* clientInstance?.isInitialized || false for the entry of cacheKey.
ToolsOf(cacheKey) == IF MapHas(clients, cacheKey) THEN MapGet(clients, cacheKey).tools ELSE <<>>
InitializedOf(cacheKey) == MapHas(clients, cacheKey) /\ MapGet(clients, cacheKey).isInitialized

\* Mutant: the last match is returned.
FindLast(tools, name) ==
    LET at == {k \in 1..Len(tools) : NameOf(tools[k]) = name}
    IN IF at = {} THEN <<>> ELSE <<tools[Max(at)]>>

\* tools.find(tool => tool.name === name): the first match, as a sequence of
\* one descriptor, or the empty sequence for undefined.
Find(tools, name) ==
    LET at == {k \in 1..Len(tools) : NameOf(tools[k]) = name}
    IN IF at = {} THEN <<>> ELSE <<tools[Min(at)]>>

NoAnswer == [op |-> "", given |-> FALSE, authContext |-> Context(Absent, Absent, Absent),
             name |-> "", ready |-> FALSE, tools |-> <<>>, tool |-> <<>>]

\* isReady(authContext) with an authContext.
IsReady(authContext) ==
    /\ answer' = [NoAnswer EXCEPT !.op = "isReady", !.given = TRUE,
                                  !.authContext = authContext,
                                  !.ready = InitializedOf(generateAuthCacheKey(authContext))]
    /\ UNCHANGED <<clients, conns, calls, now, sweeps, cleanups, handlers>>
    /\ UNCHANGED relayVars

\* isReady() without an authContext.
IsReadyWithoutContext ==
    /\ answer' = [NoAnswer EXCEPT !.op = "isReady", !.ready = FALSE]
    /\ UNCHANGED <<clients, conns, calls, now, sweeps, cleanups, handlers>>
    /\ UNCHANGED relayVars

\* getTools(authContext) with an authContext.
GetTools(authContext) ==
    /\ answer' = [NoAnswer EXCEPT !.op = "getTools", !.given = TRUE,
                                  !.authContext = authContext,
                                  !.tools = ToolsOf(generateAuthCacheKey(authContext))]
    /\ UNCHANGED <<clients, conns, calls, now, sweeps, cleanups, handlers>>
    /\ UNCHANGED relayVars

\* getTools() without an authContext.
GetToolsWithoutContext ==
    /\ answer' = [NoAnswer EXCEPT !.op = "getTools", !.tools = <<>>]
    /\ UNCHANGED <<clients, conns, calls, now, sweeps, cleanups, handlers>>
    /\ UNCHANGED relayVars

\* getTool(name, authContext) with an authContext: find on getTools.
GetTool(name, authContext) ==
    /\ answer' = [NoAnswer EXCEPT !.op = "getTool", !.given = TRUE,
                                  !.authContext = authContext, !.name = name,
                                  !.tool = Find(ToolsOf(generateAuthCacheKey(authContext)), name)]
    /\ UNCHANGED <<clients, conns, calls, now, sweeps, cleanups, handlers>>
    /\ UNCHANGED relayVars

\* getTool(name) without an authContext: find on the empty list.
GetToolWithoutContext(name) ==
    /\ answer' = [NoAnswer EXCEPT !.op = "getTool", !.name = name,
                                  !.tool = Find(<<>>, name)]
    /\ UNCHANGED <<clients, conns, calls, now, sweeps, cleanups, handlers>>
    /\ UNCHANGED relayVars

(***************************************************************************)
(* The routes of the server (the Server class whose source src/README.md   *)
(* carries from line 58 on) that call the client pool.                     *)
(***************************************************************************)
\* Bounds of the routes.
MaxRequests == 1  \* HTTP requests taken over the whole run
MaxItems == 2     \* items of the tools array of a batch

\* The entries of a tools array: a call of a tool a backend lists, a call of
\* a tool no backend lists, and null.
Items ==
    { JObj(<< <<"name", JStr("list_projects")>> >>),
      JObj(<< <<"name", JStr("delete_repo")>> >>),
      JNull }

\* req.body of a batch: tools is an array of at most MaxItems entries, or
\* is no array.
BatchBodies ==
    {[isArray |-> TRUE, tools |-> t] : t \in UNION {[1..k -> Items] : k \in 0..MaxItems}}
        \cup {[isArray |-> FALSE, tools |-> <<>>]}

\* req.authContext as the middleware fills it: the organization of the
\* environment, or none, and the default transport.
RouteContexts ==
    { Context(Absent, <<"stdio">>, Absent),
      Context(<<"a">>, <<"stdio">>, Absent) }

\* The text of a name read from a body, empty when it is no string.
TextOf(v) == IF v.kind = "string" THEN v.text ELSE ""

NoRequest ==
    [route |-> "", authContext |-> Context(Absent, Absent, Absent),
     body |-> Undefined, isArray |-> FALSE, tools |-> <<>>,
     pos |-> 0, results |-> <<>>, entered |-> FALSE, call |-> 0, pc |-> "idle",
     status |-> 0, success |-> FALSE, error |-> "", response |-> Undefined,
     sent |-> 0]

\* res.status(status).json({ error }) and the return or end of the handler.
Failed(r, status, error) ==
    [r EXCEPT !.pc = "done", !.status = status, !.error = error, !.sent = @ + 1]

\* The entries pushed to results.
ToolNotFound(name) ==
    [toolName |-> name, success |-> FALSE, error |-> "Tool not found", data |-> ""]
ToolFailed(name, error) ==
    [toolName |-> name, success |-> FALSE, error |-> error, data |-> ""]
ToolSucceeded(name) ==
    [toolName |-> name, success |-> TRUE, error |-> "", data |-> "result"]

\* The for loop of the batch route from the item after pos on, up to the
\* item whose tool is found and has to be called, to the end of the array,
\* or to an item whose name cannot be read: reading it throws inside the
\* try, and toolCall.name throws again inside the catch.
RECURSIVE BatchScan(_, _, _, _)
BatchScan(tools, pos, results, cacheKey) ==
    IF pos = Len(tools) THEN [kind |-> "end", pos |-> pos, results |-> results]
    ELSE LET toolCall == tools[pos + 1]
         IN IF ~CanRead(toolCall)
            THEN [kind |-> "throw", pos |-> pos + 1, results |-> results]
            ELSE IF Find(ToolsOf(cacheKey), TextOf(GetProp(toolCall, "name"))) = <<>>
            THEN BatchScan(tools, pos + 1,
                           Append(results, ToolNotFound(GetProp(toolCall, "name"))),
                           cacheKey)
            ELSE [kind |-> "call", pos |-> pos + 1, results |-> results]

\* The batch route from the item after pos on, for the request h of hs, up
\* to its next await or to its response.
BatchLoop(hs, h, pos, results) ==
    LET scan == BatchScan(hs[h].tools, pos, results,
                          generateAuthCacheKey(hs[h].authContext))
    IN CASE scan.kind = "end" ->
              /\ handlers' = [hs EXCEPT ![h].pc = "done", ![h].status = 200,
                                        ![h].success = TRUE, ![h].entered = TRUE,
                                        ![h].sent = @ + 1,
                                        ![h].pos = scan.pos,
                                        ![h].results = scan.results]
              /\ UNCHANGED <<clients, conns, calls>>
         [] scan.kind = "throw" ->
              \* the outer catch: res.status(500).json({ error: error.message })
              /\ handlers' = [hs EXCEPT ![h] = Failed([@ EXCEPT !.entered = TRUE,
                                                                !.pos = scan.pos,
                                                                !.results = scan.results],
                                                      500, NullReadMessage)]
              /\ UNCHANGED <<clients, conns, calls>>
         [] scan.kind = "call" ->
              /\ getOrCreateClient(Len(calls) + 1,
                    [NoCall EXCEPT !.authContext = hs[h].authContext,
                                   !.tool = TextOf(GetProp(hs[h].tools[scan.pos], "name"))])
              /\ handlers' = [hs EXCEPT ![h].pc = "item", ![h].entered = TRUE,
                                        ![h].pos = scan.pos,
                                        ![h].results = scan.results,
                                        ![h].call = Len(calls) + 1]

\* POST /api/tools/batch up to its first await.
BatchRequest(authContext, body) ==
    /\ Len(handlers) < MaxRequests
    /\ LET r == [NoRequest EXCEPT !.route = "batch", !.authContext = authContext,
                                  !.isArray = body.isArray, !.tools = body.tools]
       IN IF authContext.azureDevOpsOrg = Absent THEN
              /\ handlers' = Append(handlers,
                    Failed(r, 401, "Missing Azure DevOps organization"))
              /\ UNCHANGED <<clients, conns, calls>>
          ELSE
              /\ getOrCreateClient(Len(calls) + 1, [NoCall EXCEPT !.authContext = authContext])
              /\ handlers' = Append(handlers,
                    [r EXCEPT !.pc = "client", !.call = Len(calls) + 1])
    /\ UNCHANGED <<now, sweeps, cleanups, answer>>
    /\ UNCHANGED relayVars

\* The call a request awaits has returned or thrown.
Settled(h) == calls[handlers[h].call].pc \in {"returned", "threw"}

\* POST /api/tools/batch after await getOrCreateClient: the checks and the
\* for loop up to its first await.
BatchClientSettled(h) ==
    /\ h \in DOMAIN handlers
    /\ handlers[h].route = "batch"
    /\ handlers[h].pc = "client"
    /\ Settled(h)
    /\ IF calls[handlers[h].call].pc = "threw" THEN
           /\ handlers' = [handlers EXCEPT ![h] = Failed(@, 500, calls[handlers[h].call].error)]
           /\ UNCHANGED <<clients, conns, calls>>
       ELSE IF ~InitializedOf(generateAuthCacheKey(handlers[h].authContext)) THEN
           /\ handlers' = [handlers EXCEPT ![h] = Failed(@, 503, "MCP client not ready")]
           /\ UNCHANGED <<clients, conns, calls>>
       ELSE IF ~handlers[h].isArray THEN
           /\ handlers' = [handlers EXCEPT ![h] =
                 Failed(@, 400, "Request body must contain a tools array")]
           /\ UNCHANGED <<clients, conns, calls>>
       ELSE BatchLoop(handlers, h, 0, <<>>)
    /\ UNCHANGED <<now, sweeps, cleanups, answer>>
    /\ UNCHANGED relayVars

\* POST /api/tools/batch after await callTool: the result or the error is
\* pushed and the for loop goes on.
BatchToolSettled(h) ==
    /\ h \in DOMAIN handlers
    /\ handlers[h].route = "batch"
    /\ handlers[h].pc = "item"
    /\ Settled(h)
    /\ LET name == GetProp(handlers[h].tools[handlers[h].pos], "name")
           call == calls[handlers[h].call]
       IN BatchLoop(handlers, h, handlers[h].pos,
                    Append(handlers[h].results,
                           IF call.pc = "threw" THEN ToolFailed(name, call.error)
                           ELSE ToolSucceeded(name)))
    /\ UNCHANGED <<now, sweeps, cleanups, answer>>
    /\ UNCHANGED relayVars

\* The messages posted to /api/mcp: JSON objects with or without an id and
\* params.
McpMethods == {"initialize", "tools/list", "tools/call", "ping"}
McpParams ==
    { <<>>,
      << <<"params", JObj(<< <<"name", JStr("list_projects")>> >>)>> >>,
      << <<"params", JObj(<< <<"name", JStr("delete_repo")>> >>)>> >> }
McpIds == { <<>>, << <<"id", JNum(1)>> >> }
McpBodies ==
    { JObj(<< <<"jsonrpc", JStr(v)>>, <<"method", JStr(m)>> >> \o ps \o id) :
        v \in {"2.0", "1.0"}, m \in McpMethods, ps \in McpParams, id \in McpIds }

\* res.json(response) and the return or end of the handler.
Replied(r, response) ==
    [r EXCEPT !.pc = "done", !.status = 200, !.response = response, !.sent = @ + 1]

\* { jsonrpc: '2.0', id, result: {...} }
McpResult(id) ==
    JObj(<< <<"jsonrpc", JStr("2.0")>>, <<"id", id>>, <<"result", JObj(<<>>)>> >>)

\* Mutant: a tool that is not found is answered as an internal error.
McpToolNotFoundInternal(id) == ErrorResponse(id, -32603, "Tool not found")

\* { jsonrpc: '2.0', id, error: { code: -32602, message: `Tool '${name}' not found` } }
McpToolNotFound(id) == ErrorResponse(id, -32602, "Tool not found")

\* const defaultAuthContext = { azureDevOpsOrg: process.env.AZURE_DEVOPS_ORG,
\* mcpTransportType: 'stdio' }, the organization of the environment being the
\* one the middleware put into req.authContext.
DefaultAuthContext(authContext) == Context(authContext.azureDevOpsOrg, <<"stdio">>, Absent)

\* POST /api/mcp up to its first await.
McpRequest(authContext, body) ==
    /\ Len(handlers) < MaxRequests
    /\ LET r == [NoRequest EXCEPT !.route = "mcp", !.authContext = authContext,
                                  !.body = body]
           id == GetProp(body, "id")
           method == GetProp(body, "method")
           await(pc, context) ==
               /\ getOrCreateClient(Len(calls) + 1, [NoCall EXCEPT !.authContext = context])
               /\ handlers' = Append(handlers,
                     [r EXCEPT !.pc = pc, !.authContext = context, !.call = Len(calls) + 1])
           reply(response) ==
               /\ handlers' = Append(handlers, Replied(r, response))
               /\ UNCHANGED <<clients, conns, calls>>
       IN IF ~CanRead(body) THEN
              \* the destructuring throws, and req.body.id throws again in
              \* the outer catch
              /\ handlers' = Append(handlers, [r EXCEPT !.pc = "threw",
                                                        !.error = NullReadMessage])
              /\ UNCHANGED <<clients, conns, calls>>
          ELSE IF GetProp(body, "jsonrpc") # JStr("2.0") THEN
              reply(ErrorResponse(id, -32600, "Invalid Request - jsonrpc must be 2.0"))
          ELSE IF method = JStr("initialize") THEN
              IF authContext.azureDevOpsOrg = Absent
              THEN reply(McpResult(id))
              ELSE await("initialize", DefaultAuthContext(authContext))
          ELSE IF method \in {JStr("tools/list"), JStr("tools/call")} THEN
              IF authContext.azureDevOpsOrg = Absent
              THEN reply(ErrorResponse(id, -32603, "Missing Azure DevOps organization"))
              ELSE await(method.text, authContext)
          ELSE reply(ErrorResponse(id, -32601, "Method not found"))
    /\ UNCHANGED <<now, sweeps, cleanups, answer>>
    /\ UNCHANGED relayVars

\* POST /api/mcp after await getOrCreateClient, up to its next await or its
\* response.
McpClientSettled(h) ==
    /\ h \in DOMAIN handlers
    /\ handlers[h].route = "mcp"
    /\ handlers[h].pc \in {"initialize", "tools/list", "tools/call"}
    /\ Settled(h)
    /\ LET r == handlers[h]
           id == GetProp(r.body, "id")
           params == GetProp(r.body, "params")
           call == calls[r.call]
           cacheKey == generateAuthCacheKey(r.authContext)
           reply(response) ==
               /\ handlers' = [handlers EXCEPT ![h] = Replied(@, response)]
               /\ UNCHANGED <<clients, conns, calls>>
       IN IF r.pc = "initialize" THEN
              IF call.pc = "threw"
              THEN reply(ErrorResponse(id, -32603, "Initialization failed: " \o call.error))
              ELSE reply(McpResult(id))
          ELSE IF call.pc = "threw" THEN reply(ErrorResponse(id, -32603, call.error))
          ELSE IF ~InitializedOf(cacheKey) THEN
              reply(ErrorResponse(id, -32603, "MCP client not ready"))
          ELSE IF r.pc = "tools/list" THEN reply(McpResult(id))
          ELSE IF ~CanRead(params) THEN
              \* const { name, arguments: args } = params throws
              reply(ErrorResponse(id, -32603, NullReadMessage))
          ELSE IF Find(ToolsOf(cacheKey), TextOf(GetProp(params, "name"))) = <<>> THEN
              /\ handlers' = [handlers EXCEPT ![h] =
                    [Replied(@, McpToolNotFound(id)) EXCEPT !.entered = TRUE]]
              /\ UNCHANGED <<clients, conns, calls>>
          ELSE
              /\ getOrCreateClient(Len(calls) + 1,
                    [NoCall EXCEPT !.authContext = r.authContext,
                                   !.tool = TextOf(GetProp(params, "name"))])
              /\ handlers' = [handlers EXCEPT ![h].pc = "tool", ![h].entered = TRUE,
                                              ![h].pos = 1,
                                              ![h].call = Len(calls) + 1]
    /\ UNCHANGED <<now, sweeps, cleanups, answer>>
    /\ UNCHANGED relayVars

\* POST /api/mcp after await callTool.
McpToolSettled(h) ==
    /\ h \in DOMAIN handlers
    /\ handlers[h].route = "mcp"
    /\ handlers[h].pc = "tool"
    /\ Settled(h)
    /\ LET id == GetProp(handlers[h].body, "id")
           call == calls[handlers[h].call]
       IN handlers' = [handlers EXCEPT ![h] =
              Replied(@, IF call.pc = "threw" THEN ErrorResponse(id, -32603, call.error)
                         ELSE McpResult(id))]
    /\ UNCHANGED <<clients, conns, calls>>
    /\ UNCHANGED <<now, sweeps, cleanups, answer>>
    /\ UNCHANGED relayVars

PoolInit ==
    /\ clients = <<>>
    /\ conns = <<>>
    /\ calls = <<>>
    /\ now = 0
    /\ sweeps = <<>>
    /\ cleanups = <<>>
    /\ answer = NoAnswer
    /\ handlers = <<>>

\* getOrCreateClient called with every kind of context, and the steps of
\* the creations it starts.
PoolNext ==
    \/ \E p \in Callers, authContext \in Contexts : GetOrCreateClient(p, authContext)
    \/ \E p \in Callers : ConnectResolved(p)
    \/ \E p \in Callers : ConnectRejected(p)
    \/ \E p \in Callers : Stabilized(p)
    \/ \E p \in Callers, tools \in Catalogs : ListToolsResolved(p, tools)
    \/ \E p \in Callers : ListToolsRejected(p)
    \/ \E p \in Callers : CloseResolved(p)
    \/ \E p \in Callers : CloseRejected(p)

\* The contexts of the calls made while sweeps run: two tenants' keys.
SweepContexts ==
    { Context(<<"a">>, <<"stdio">>, Absent),
      Context(<<"a">>, <<"http">>, <<"u">>) }

\* The calls started in a run with sweeps.
SweepCallers == 1..MaxSweepCalls

\* getOrCreateClient and callTool together with the periodic sweep, the
\* shutdown cleanup and the clock.
SweepNext ==
    \/ \E p \in SweepCallers, authContext \in SweepContexts :
          GetOrCreateClient(p, authContext)
    \/ \E p \in SweepCallers, name \in ToolNames, authContext \in ToolContexts :
          CallTool(p, name, authContext)
    \/ \E p \in SweepCallers, name \in ToolNames : CallToolWithoutContext(p, name)
    \/ \E p \in Callers : ConnectResolved(p)
    \/ \E p \in Callers : ConnectRejected(p)
    \/ \E p \in Callers : Stabilized(p)
    \/ \E p \in Callers, tools \in Catalogs : ListToolsResolved(p, tools)
    \/ \E p \in Callers : ListToolsRejected(p)
    \/ \E p \in Callers : CloseResolved(p)
    \/ \E p \in Callers : CloseRejected(p)
    \/ \E p \in Callers : ToolResolved(p)
    \/ \E p \in Callers : ToolRejected(p)
    \/ \E maxAgeMinutes \in MaxAges : CleanupUnusedClients(maxAgeMinutes)
    \/ \E s \in 1..MaxSweeps : SweepCloseResolved(s)
    \/ \E s \in 1..MaxSweeps : SweepCloseRejected(s)
    \/ Cleanup
    \/ \E c \in 1..MaxCleanups : CleanupCloseResolved(c)
    \/ \E c \in 1..MaxCleanups : CleanupCloseRejected(c)
    \/ Tick

\* The read-only calls of the request handlers, made with every kind of
\* context, while clients are created for two tenants and the server shuts
\* down.
QueryNext ==
    \/ \E p \in SweepCallers, authContext \in SweepContexts :
          GetOrCreateClient(p, authContext)
    \/ \E p \in SweepCallers : ConnectResolved(p)
    \/ \E p \in SweepCallers : ConnectRejected(p)
    \/ \E p \in SweepCallers : Stabilized(p)
    \/ \E p \in SweepCallers, tools \in QueryCatalogs : ListToolsResolved(p, tools)
    \/ \E p \in SweepCallers : ListToolsRejected(p)
    \/ \E p \in SweepCallers : CloseResolved(p)
    \/ \E p \in SweepCallers : CloseRejected(p)
    \/ Cleanup
    \/ \E c \in 1..MaxCleanups : CleanupCloseResolved(c)
    \/ \E c \in 1..MaxCleanups : CleanupCloseRejected(c)
    \/ \E authContext \in Contexts : IsReady(authContext)
    \/ IsReadyWithoutContext
    \/ \E authContext \in Contexts : GetTools(authContext)
    \/ GetToolsWithoutContext
    \/ \E name \in ToolNames, authContext \in Contexts : GetTool(name, authContext)
    \/ \E name \in ToolNames : GetToolWithoutContext(name)

\* The calls of the request handlers of two tenants, one of whose backends
\* may never answer.
StuckNext ==
    \/ \E p \in Callers, authContext \in SweepContexts : GetOrCreateClient(p, authContext)
    \/ \E p \in Callers : ConnectResolved(p)
    \/ \E p \in Callers : ConnectRejected(p)
    \/ \E p \in Callers : Stabilized(p)
    \/ \E p \in Callers, tools \in Catalogs : ListToolsResolved(p, tools)
    \/ \E p \in Callers : ListToolsRejected(p)
    \/ \E p \in Callers : CloseResolved(p)
    \/ \E p \in Callers : CloseRejected(p)
    \/ \E authContext \in SweepContexts : IsReady(authContext)
    \/ \E authContext \in SweepContexts : GetTools(authContext)

\* The key of the tenant whose backend may never answer.
StuckKey == generateAuthCacheKey(Context(<<"a">>, <<"stdio">>, Absent))

\* The backend of call p answers: every promise the call awaits settles.
Answered(p) ==
    /\ p \in DOMAIN calls
    /\ calls[p].cacheKey # StuckKey
    /\ \/ ConnectResolved(p) \/ ConnectRejected(p)
       \/ Stabilized(p)
       \/ (\E tools \in Catalogs : ListToolsResolved(p, tools)) \/ ListToolsRejected(p)
       \/ CloseResolved(p) \/ CloseRejected(p)

\* Contexts whose fields contain the separator of the cache key, next to
\* contexts that differ only in an absent transport type.
KeyContexts ==
    { Context(<<"a">>, Absent, Absent),
      Context(<<"a">>, <<"stdio">>, Absent),
      Context(<<"a">>, <<"stdio">>, <<"http", "|", "u">>),
      Context(<<"a", "|", "stdio">>, <<"http">>, <<"u">>),
      Context(<<"a">>, <<"http">>, <<"u">>) }

\* getOrCreateClient called with those contexts.
KeyNext ==
    \/ \E p \in SweepCallers, authContext \in KeyContexts : GetOrCreateClient(p, authContext)
    \/ \E p \in SweepCallers : ConnectResolved(p)
    \/ \E p \in SweepCallers : ConnectRejected(p)
    \/ \E p \in SweepCallers : Stabilized(p)
    \/ \E p \in SweepCallers, tools \in Catalogs : ListToolsResolved(p, tools)
    \/ \E p \in SweepCallers : ListToolsRejected(p)
    \/ \E p \in SweepCallers : CloseResolved(p)
    \/ \E p \in SweepCallers : CloseRejected(p)

\* The calls the routes make: per request one getOrCreateClient and one
\* callTool per item.
RouteCallers == 1..(MaxRequests * (MaxItems + 1))

\* The batch route and the steps of the calls it awaits.
BatchNext ==
    \/ \E authContext \in RouteContexts, body \in BatchBodies : BatchRequest(authContext, body)
    \/ \E h \in 1..MaxRequests : BatchClientSettled(h)
    \/ \E h \in 1..MaxRequests : BatchToolSettled(h)
    \/ \E p \in RouteCallers : ConnectResolved(p)
    \/ \E p \in RouteCallers : ConnectRejected(p)
    \/ \E p \in RouteCallers : Stabilized(p)
    \/ \E p \in RouteCallers, tools \in Catalogs : ListToolsResolved(p, tools)
    \/ \E p \in RouteCallers : ListToolsRejected(p)
    \/ \E p \in RouteCallers : CloseResolved(p)
    \/ \E p \in RouteCallers : CloseRejected(p)
    \/ \E p \in RouteCallers : ToolResolved(p)
    \/ \E p \in RouteCallers : ToolRejected(p)

\* The JSON-RPC route and the steps of the calls it awaits.
McpNext ==
    \/ \E authContext \in RouteContexts, body \in McpBodies : McpRequest(authContext, body)
    \/ \E h \in 1..MaxRequests : McpClientSettled(h)
    \/ \E h \in 1..MaxRequests : McpToolSettled(h)
    \/ \E p \in RouteCallers : ConnectResolved(p)
    \/ \E p \in RouteCallers : ConnectRejected(p)
    \/ \E p \in RouteCallers : Stabilized(p)
    \/ \E p \in RouteCallers, tools \in Catalogs : ListToolsResolved(p, tools)
    \/ \E p \in RouteCallers : ListToolsRejected(p)
    \/ \E p \in RouteCallers : CloseResolved(p)
    \/ \E p \in RouteCallers : CloseRejected(p)
    \/ \E p \in RouteCallers : ToolResolved(p)
    \/ \E p \in RouteCallers : ToolRejected(p)

Init == RelayInit /\ PoolInit

\* The relay process.
Spec == Init /\ [][Next]_vars

\* The socket timeout (timeout: 10000) fires for a request that stays idle.
FairSpec == Spec /\ \A i \in 1..MaxFed : WF_vars(ReqTimeout(i))

\* The server process that owns the client pool: its request handlers.
PoolSpec == Init /\ [][PoolNext]_vars

\* The server process with its sweep timer, its shutdown and its clock.
SweepSpec == Init /\ [][SweepNext]_vars

\* The server process with the read-only calls of its request handlers.
QuerySpec == Init /\ [][QueryNext]_vars

\* The server process called with contexts of every shape of field.
KeySpec == Init /\ [][KeyNext]_vars

\* The server process taking batch requests.
BatchSpec == Init /\ [][BatchNext]_vars

\* The server process taking JSON-RPC messages.
McpSpec == Init /\ [][McpNext]_vars

\* The server process with one tenant's backend that may hang: the promises
\* of the calls for every other key settle, the event loop runs their
\* continuations.
StuckSpec == Init /\ [][StuckNext]_vars /\ \A p \in Callers : WF_vars(Answered(p))

(***************************************************************************)
(* Properties of the relay.                                                *)
(***************************************************************************)
\* The parsed message behind processed[n], and what the client sent as its id.
MessageOf(n) == JsonParse(processed[n])
IsJsonRpcMessage(n) == MessageOf(n).ok /\ CanRead(MessageOf(n).value)
MessageId(n) == GetProp(MessageOf(n).value, "id")
HasId(n) == IsJsonRpcMessage(n) /\ MessageId(n) # Undefined
HasNoId(n) == IsJsonRpcMessage(n) /\ MessageId(n) = Undefined

\* The output lines written for message n.
LinesFor(n) == {k \in DOMAIN out : out[k].msg = n}

LineId(l) == GetProp(l.line, "id")
LineError(l) == GetProp(l.line, "error")
LineCode(l) == GetProp(LineError(l), "code")
LineMessage(l) == GetProp(LineError(l), "message")

\* The forward of request i is over: its callback has run.
Resolved(i) == reqs[i].st \in {"ended", "failed", "destroyed", "aborted"}

\* C1: every output line written for a message that has an id carries that
\* id, whatever the backend answered.
C1_ResponseCarriesRequestId ==
    \A k \in DOMAIN out :
        HasId(out[k].msg) => LineId(out[k]) = MessageId(out[k].msg)

\* C2: a message without an id field never gets an output line, whatever
\* became of its forward.
C2_NotificationSilent ==
    \A n \in DOMAIN processed : HasNoId(n) => LinesFor(n) = {}

\* C2 witness: two notifications were forwarded; one was answered with a
\* JSON document, the other timed out, and nothing was written.
C2_Witness ==
    \E i, j \in DOMAIN reqs :
        /\ reqs[i].isNotification /\ reqs[i].st = "ended"
        /\ reqs[i].responseData = <<"B1">>
        /\ reqs[j].isNotification /\ reqs[j].st = "destroyed"
        /\ out = <<>>

\* C3: a request never has more than one output line, and has exactly one
\* once its forward is over.
C3_ExactlyOneResponse ==
    \A i \in DOMAIN reqs :
        ~reqs[i].isNotification =>
            /\ Cardinality(LinesFor(reqs[i].msg)) <= 1
            /\ Resolved(i) => Cardinality(LinesFor(reqs[i].msg)) = 1

\* C4: a line that is not well-formed JSON has, from the step that read it
\* on, exactly one output line, with code -32700 and id null, and no HTTP
\* request.
C4_MalformedInput ==
    \A n \in DOMAIN processed :
        ~MessageOf(n).ok =>
            /\ Cardinality(LinesFor(n)) = 1
            /\ \A k \in LinesFor(n) :
                  /\ LineCode(out[k]) = JNum(-32700)
                  /\ LineId(out[k]) = JNull
                  /\ out[k].path = "framing"
            /\ \A i \in DOMAIN reqs : reqs[i].msg # n

\* C4 witness: the text x was read as a line and answered.
C4_Witness ==
    \E n \in DOMAIN processed :
        /\ processed[n] = <<"x">>
        /\ LinesFor(n) # {}

\* All characters of a body are blanks (or there are none).
IsBlank(body) == \A k \in 1..Len(body) : body[k] \in WhiteSpace

\* C5: an answer with an empty or blank body gives a request exactly one
\* line, error -32603 "Empty response from server" with the request's id,
\* and gives a notification nothing.
C5_EmptyResponse ==
    \A i \in DOMAIN reqs :
        (reqs[i].st = "ended" /\ IsBlank(reqs[i].responseData)) =>
            IF reqs[i].isNotification THEN LinesFor(reqs[i].msg) = {}
            ELSE /\ Cardinality(LinesFor(reqs[i].msg)) = 1
                 /\ \A k \in LinesFor(reqs[i].msg) :
                       /\ LineCode(out[k]) = JNum(-32603)
                       /\ LineMessage(out[k]) = JStr("Empty response from server")
                       /\ LineId(out[k]) = reqs[i].requestId

\* C5 witness: a request was answered with a blank body and a notification
\* with an empty one.
C5_Witness ==
    \E i, j \in DOMAIN reqs :
        /\ ~reqs[i].isNotification /\ reqs[i].st = "ended"
        /\ reqs[i].responseData = <<SP>>
        /\ reqs[j].isNotification /\ reqs[j].st = "ended"
        /\ reqs[j].responseData = <<>>

\* C6: every forwarded request eventually has an output line.
C6_EveryForwardAnswered ==
    \A i \in 1..MaxFed :
        [](((i \in DOMAIN reqs) /\ ~reqs[i].isNotification)
              => <>(i \in DOMAIN reqs /\ LinesFor(reqs[i].msg) # {}))

\* The error lines the relay makes up itself.
Synthesized == {k \in DOMAIN out : out[k].path # "success"}

\* The ids of the requests the client has sent.
SentIds == {MessageId(n) : n \in {m \in DOMAIN processed : HasId(m)}}

\* What the caller sees of a line: the classes its code and id fit, sent
\* being the ids of the requests the caller has sent.
FitsFraming(l) == LineCode(l) = JNum(-32700) /\ LineId(l) = JNull
FitsTransport(l, sent) == LineCode(l) = JNum(-32603) /\ LineId(l) \in sent
FitsPayload(l, sent) == LineCode(l) = JNum(-32700) /\ LineId(l) \in sent
ClassesOf(l, sent) ==
    {c \in {"framing", "transport", "payload"} :
        \/ c = "framing" /\ FitsFraming(l)
        \/ c = "transport" /\ FitsTransport(l, sent)
        \/ c = "payload" /\ FitsPayload(l, sent)}

\* The class of the branch of the code that wrote the line.
ClassOfPath(path) == IF path = "empty" THEN "transport" ELSE path

\* C7 as stated: every error line of the relay fits the class of the failure
\* that produced it and no other class.
C7_ClassesDisjoint ==
    LET sent == SentIds
    IN \A k \in Synthesized : ClassesOf(out[k], sent) = {ClassOfPath(out[k].path)}

\* C7 amended: every error line of the relay fits the class of the failure
\* that produced it, with the id of its own request; it fits no other class
\* unless its id is null.
C7_ClassesDisjointUnlessNullId ==
    LET sent == SentIds
    IN \A k \in Synthesized :
        LET classes == ClassesOf(out[k], sent)
        IN /\ ClassOfPath(out[k].path) \in classes
           /\ out[k].path # "framing" => LineId(out[k]) = MessageId(out[k].msg)
           /\ LineId(out[k]) # JNull => classes = {ClassOfPath(out[k].path)}
           /\ JNull \notin sent => classes = {ClassOfPath(out[k].path)}

\* C7 witness: a framing error and a payload error for request 7 are both
\* on the output.
C7_Witness ==
    \E k, m \in Synthesized :
        /\ out[k].path = "framing"
        /\ out[m].path = "payload" /\ LineId(out[m]) = JNum(7)

Keys(v) == {v.fields[k][1] : k \in 1..Len(v.fields)}

\* C8: for a request answered with a body that parses as JSON, the line is
\* the backend's object with id set to the request's id, jsonrpc "2.0"
\* where the backend had none, and every other field as the backend gave it.
C8_ResponseRewritten ==
    \A i \in DOMAIN reqs :
        (/\ ~reqs[i].isNotification
         /\ reqs[i].st = "ended"
         /\ ~IsBlank(reqs[i].responseData)
         /\ JsonParse(reqs[i].responseData).ok) =>
            LET body == JsonParse(reqs[i].responseData).value
            IN \A k \in LinesFor(reqs[i].msg) :
                  /\ out[k].line.kind = "object"
                  /\ Keys(out[k].line) = Keys(body) \cup {"id", "jsonrpc"}
                  /\ LineId(out[k]) = reqs[i].requestId
                  /\ "jsonrpc" \notin Keys(body) =>
                        GetProp(out[k].line, "jsonrpc") = JStr("2.0")
                  /\ \A key \in Keys(body) \ {"id", "jsonrpc"} :
                        GetProp(out[k].line, key) = GetProp(body, key)

\* The positions of the newlines of a text, and the text between the
\* newline at position a (0: the start) and the next one at b.
Newlines(text) == {k \in 1..Len(text) : text[k] = NL}
LineStarts(text) == {0} \cup Newlines(text)
NextNewline(text, a) == Min({b \in Newlines(text) : b > a})
Between(text, a) == Trim(SubSeq(text, a + 1, NextNewline(text, a) - 1))

\* The starts of the complete, non-blank lines of a text.
MessageStarts(text) ==
    {a \in LineStarts(text) :
        /\ \E b \in Newlines(text) : b > a
        /\ Between(text, a) # <<>>}

\* The messages of a text: its trimmed non-empty lines, in order.
RECURSIVE MessagesFrom(_, _)
MessagesFrom(text, starts) ==
    IF starts = {} THEN <<>>
    ELSE <<Between(text, Min(starts))>> \o MessagesFrom(text, starts \ {Min(starts)})

AfterLastNewline(text) ==
    IF Newlines(text) = {} THEN text
    ELSE SubSeq(text, Max(Newlines(text)) + 1, Len(text))

\* C9: whatever the chunks, the messages processed are the trimmed non-empty
\* lines of the whole input, in order, each once, and the buffer holds the
\* text after the last newline.
C9_ChunkingIrrelevant ==
    /\ processed = MessagesFrom(fed, MessageStarts(fed))
    /\ messageBuffer = AfterLastNewline(fed)

\* C9 witness: a message put together from two chunks was processed and a
\* later text is waiting for its newline.
C9_Witness ==
    /\ carried
    /\ Len(processed) >= 1
    /\ messageBuffer # <<>>

(***************************************************************************)
(* Properties of the client pool.                                          *)
(***************************************************************************)
\* Caller p is creating a client: between the call of client.connect and the
\* insertion into the Map.
Creating(p) == calls[p].pc \in {"connect", "settle", "listTools"}

\* The clients of a key that are connecting or connected and not closed.
LiveClients(key) ==
    {c \in DOMAIN conns : conns[c].key = key /\ conns[c].st \in {"connecting", "connected"}}

\* C10: at most one creation is in progress per cache key and at most one
\* client exists per key.
C10_SingleFlight ==
    /\ \A p, q \in DOMAIN calls :
          (p # q /\ Creating(p) /\ Creating(q)) => calls[p].cacheKey # calls[q].cacheKey
    /\ \A c \in DOMAIN conns : Cardinality(LiveClients(conns[c].key)) <= 1

\* What the caller gave: no organization id; the http transport and no
\* server URL.
NoOrganization(authContext) == authContext.azureDevOpsOrg = <<>>
HttpWithoutUrl(authContext) ==
    authContext.mcpTransportType = <<"http">> /\ authContext.mcpServerUrl = <<>>

\* The instances the pool holds.
Pooled == {clients[k].value.client : k \in 1..Len(clients)}

\* A step starts the call q.
Starts(q) == Len(calls) = q - 1 /\ Len(calls') = q

\* Nothing has been evicted so far: no sweep and no cleanup has started.
NothingEvicted == sweeps = <<>> /\ cleanups = <<>>

\* C11: once a getOrCreateClient has returned an instance for a key and
\* nothing has been evicted, every getOrCreateClient started later with a
\* context of the same key returns that instance at once and creates no
\* client.
C11_CachedInstanceReturned ==
    [][\A p \in DOMAIN calls : \A q \in Callers :
          (/\ Starts(q)
           /\ NothingEvicted
           /\ calls[p].pc = "returned"
           /\ calls'[q].tool = ""
           /\ ~NoOrganization(calls'[q].authContext)
           /\ generateAuthCacheKey(calls'[q].authContext) = calls[p].cacheKey)
          => /\ calls'[q].pc = "returned"
             /\ calls'[q].result = calls[p].result
             /\ conns' = conns]_vars

\* A step completes the sweep s: its for loop has ended and it has deleted
\* its keysToRemove.
SweepCompletes(s) ==
    /\ s \in DOMAIN sweeps'
    /\ sweeps'[s].pc = "done"
    /\ (s \notin DOMAIN sweeps \/ sweeps[s].pc # "done")

\* close has been called on client c and has settled.
CloseAttempted(c) == conns[c].st \in {"closed", "closeFailed"}

\* C12: when a sweep completes, no instance whose lastUsed is before the
\* cutoff is left in the pool; every instance it found stale has had its
\* close and is out of the pool; the step removes no other instance, and
\* the entries that stay are as they were.
C12_SweepRemovesExactlyStale ==
    [][\A s \in 1..MaxSweeps :
          SweepCompletes(s) =>
             /\ \A k \in 1..Len(clients') :
                   /\ clients'[k].value.lastUsed >= sweeps'[s].cutoffTime
                   /\ \E j \in 1..Len(clients) : clients[j] = clients'[k]
             /\ \A c \in sweeps'[s].closeCalls : CloseAttempted(c)' /\ c \notin Pooled'
             /\ (Pooled \ Pooled') \subseteq sweeps'[s].closeCalls]_vars

\* C13: a sweep never ends with an error, and when it completes, whatever
\* became of its closes, every instance it found stale has had its close,
\* every key it collected is out of the pool with that instance, and no
\* stale instance is left.
C13_SweepSurvivesCloseFailure ==
    /\ [](\A s \in DOMAIN sweeps : sweeps[s].pc \in {"closing", "done"})
    /\ [][\A s \in 1..MaxSweeps :
             SweepCompletes(s) =>
                /\ \A c \in sweeps'[s].closeCalls : CloseAttempted(c)' /\ c \notin Pooled'
                /\ \A k \in 1..Len(sweeps'[s].keysToRemove) :
                      ~MapHas(clients', sweeps'[s].keysToRemove[k])
                /\ \A k \in 1..Len(clients') :
                      clients'[k].value.lastUsed >= sweeps'[s].cutoffTime]_vars

\* C13 witness: a sweep has completed that closed two stale instances; the
\* close of the first one failed, the second one was closed all the same,
\* and both are out of the pool.
C13_Witness ==
    \E s \in DOMAIN sweeps : \E c, d \in sweeps[s].closeCalls :
        /\ sweeps[s].pc = "done"
        /\ c < d
        /\ conns[c].st = "closeFailed"
        /\ conns[d].st = "closed"
        /\ Pooled \cap {c, d} = {}

\* A step completes the cleanup c: its for loop has ended and it has cleared
\* the Map.
CleanupCompletes(c) ==
    /\ c \in DOMAIN cleanups'
    /\ cleanups'[c].pc = "done"
    /\ (c \notin DOMAIN cleanups \/ cleanups[c].pc # "done")

\* C14: a cleanup never ends with an error, and when it completes the pool
\* is empty and every instance that was in the pool when it started or was
\* in the pool when it cleared the Map has had its close, whatever became
\* of the closes.
C14_CleanupClosesAll ==
    /\ [](\A c \in DOMAIN cleanups : cleanups[c].pc \in {"closing", "done"})
    /\ [][\A c \in 1..MaxCleanups :
             CleanupCompletes(c) =>
                /\ clients' = <<>>
                /\ \A i \in cleanups'[c].initial \cup Pooled : CloseAttempted(i)']_vars

\* The creation of call p has failed: its catch is closing the client or has
\* thrown, and the call never had an instance.
CreationFailed(p) ==
    /\ calls[p].client # 0
    /\ calls[p].result = 0
    /\ calls[p].pc \in {"close", "threw"}

\* C15: the client of a failed creation is never in the pool, no step of a
\* creation that fails changes the Map, and a getOrCreateClient that finds
\* no entry for its key starts a creation of its own with a new client.
C15_FailedCreationLeavesPool ==
    /\ [](\A p \in DOMAIN calls : CreationFailed(p) => calls[p].client \notin Pooled)
    /\ [][/\ \A p \in DOMAIN calls :
                (calls'[p] # calls[p] /\ CreationFailed(p)') => clients' = clients
           /\ \A q \in Callers :
                (/\ Starts(q)
                 /\ ~NoOrganization(calls'[q].authContext)
                 /\ ~HttpWithoutUrl(calls'[q].authContext)
                 /\ ~MapHas(clients, generateAuthCacheKey(calls'[q].authContext)))
                => /\ calls'[q].pc = "connect"
                   /\ calls'[q].client = Len(conns) + 1
                   /\ Len(conns') = Len(conns) + 1]_vars

\* C15 witness: a creation failed at its handshake and another at its
\* catalog fetch, and a later call for the same key has created and stored
\* an instance.
C15_Witness ==
    \E p, q, r \in DOMAIN calls :
        /\ calls[p].pc = "threw" /\ calls[p].error = "connect failed"
        /\ calls[q].pc = "threw" /\ calls[q].error = "listTools failed"
        /\ p < r /\ q < r
        /\ calls[r].cacheKey = calls[p].cacheKey
        /\ calls[r].cacheKey = calls[q].cacheKey
        /\ calls[r].pc = "returned"
        /\ calls[r].result = calls[r].client
        /\ MapHas(clients, calls[r].cacheKey)
        /\ MapGet(clients, calls[r].cacheKey).client = calls[r].client

\* The error of the step at which the creation of client c failed: the
\* handshake if the client never connected, else the catalog fetch.
OriginalError(c) == IF conns[c].opened THEN "listTools failed" ELSE "connect failed"

\* C16: a getOrCreateClient whose creation failed throws only after close
\* has been called on its client and has settled, and what it throws is the
\* error of the handshake or of the catalog fetch, whatever the close did.
C16_FailedCreationClosesClient ==
    \A p \in DOMAIN calls :
        (CreationFailed(p) /\ calls[p].pc = "threw") =>
            /\ CloseAttempted(calls[p].client)
            /\ calls[p].error = OriginalError(calls[p].client)

\* C16 witness: a creation failed at the handshake and its client was
\* closed; another failed at the catalog fetch and the close failed too;
\* both calls threw.
C16_Witness ==
    \E p, q \in DOMAIN calls :
        /\ CreationFailed(p) /\ calls[p].pc = "threw"
        /\ calls[p].error = "connect failed"
        /\ conns[calls[p].client].st = "closed"
        /\ CreationFailed(q) /\ calls[q].pc = "threw"
        /\ calls[q].error = "listTools failed"
        /\ conns[calls[q].client].st = "closeFailed"

\* C17: a call without an organization throws the missing-organization
\* error and a call for http without a server URL throws the missing-URL
\* error; the step that makes such a call creates no client and leaves the
\* Map as it was.
C17_ArgumentErrors ==
    /\ [](\A p \in DOMAIN calls :
            LET authContext == calls[p].authContext
            IN (calls[p].tool = "" /\ (NoOrganization(authContext)
                                        \/ HttpWithoutUrl(authContext))) =>
                  /\ calls[p].pc = "threw"
                  /\ calls[p].client = 0
                  /\ calls[p].result = 0
                  /\ calls[p].error =
                        IF NoOrganization(authContext)
                        THEN "Missing required Azure DevOps organization"
                        ELSE "MCP server URL is required for HTTP transport")
    /\ [][\A q \in Callers :
             (Starts(q) /\ (NoOrganization(calls'[q].authContext)
                             \/ HttpWithoutUrl(calls'[q].authContext)))
             => (conns' = conns /\ clients' = clients)]_vars

\* C17 witness: a call without an organization and a call for http without
\* a server URL have both thrown, with a pool that holds an instance.
C17_Witness ==
    \E p, q \in DOMAIN calls :
        /\ NoOrganization(calls[p].authContext)
        /\ calls[p].pc = "threw"
        /\ ~NoOrganization(calls[q].authContext)
        /\ HttpWithoutUrl(calls[q].authContext)
        /\ calls[q].pc = "threw"
        /\ clients # <<>>

\* C18: a callTool never starts a creation, and it calls the backend only
\* for a tool that is in the catalog of the instance it found.
C18_CallToolChecksFirst ==
    \A p \in DOMAIN calls :
        calls[p].tool # "" =>
            /\ calls[p].client = 0
            /\ calls[p].result # 0 =>
                  calls[p].tool \in Range(conns[calls[p].result].listed)

\* A step hands call p its instance: from the cache or from its creation.
Retrieves(p) ==
    /\ p \in DOMAIN calls'
    /\ calls'[p].result # 0
    /\ (p \notin DOMAIN calls \/ calls[p].result = 0)

\* C19: a step that hands a getOrCreateClient or a callTool its instance
\* leaves that instance in the pool with lastUsed at the current time, and
\* an instance that the completion of a sweep takes out of the pool was
\* last used at least maxAgeMinutes ago.
C19_RecentlyUsedNotEvicted ==
    [][/\ \A p \in Callers :
             Retrieves(p) =>
                \E k \in 1..Len(clients') :
                   /\ clients'[k].value.client = calls'[p].result
                   /\ clients'[k].value.lastUsed = now
       /\ \A s \in 1..MaxSweeps :
             SweepCompletes(s) =>
                \A k \in 1..Len(clients) :
                   clients[k].value.client \notin Pooled' =>
                      now - clients[k].value.lastUsed >= sweeps'[s].maxAgeMinutes]_vars

\* C20: every entry of the pool is initialized, belongs to the key its
\* client was created for, and holds the catalog that its client's
\* listTools returned after its handshake had succeeded; no catalog is
\* fetched before the handshake has succeeded and no call has an instance
\* whose catalog has not been fetched.
C20_PooledInstancesReady ==
    /\ \A k \in 1..Len(clients) :
          LET c == clients[k].value.client
          IN /\ clients[k].value.isInitialized
             /\ conns[c].key = clients[k].key
             /\ conns[c].opened
             /\ conns[c].fetched
             /\ clients[k].value.tools = conns[c].listed
    /\ \A c \in DOMAIN conns : conns[c].fetched => conns[c].opened
    /\ \A p \in DOMAIN calls :
          /\ calls[p].pc = "listTools" => conns[calls[p].client].opened
          /\ calls[p].result # 0 => conns[calls[p].result].fetched

\* C20 witness: the pool holds two instances, the first with a catalog of
\* one tool and the second, whose client was created first, with an empty
\* catalog.
C20_Witness ==
    /\ Len(clients) = 2
    /\ clients[1].value.tools = <<"list_projects">>
    /\ clients[2].value.tools = <<>>
    /\ clients[2].value.client < clients[1].value.client

\* A step in which op is called and gives a new answer.
Answers(op) == answer' # answer /\ answer'.op = op

\* The pool holds under cacheKey an instance in state ready: its client
\* finished the handshake and the catalog fetch and has not been closed.
ReadyInstance(cacheKey) ==
    /\ MapHas(clients, cacheKey)
    /\ LET c == MapGet(clients, cacheKey).client
       IN conns[c].opened /\ conns[c].fetched /\ conns[c].st # "closed"

\* C21: isReady answers true exactly when it is given a context and the
\* pool holds under the context's key an instance in state ready; it
\* answers false without a context and when no instance is cached.
C21_IsReadyIffReady ==
    [][Answers("isReady") =>
          answer'.ready = (/\ answer'.given
                           /\ ReadyInstance(generateAuthCacheKey(answer'.authContext)))]_vars

\* The catalog the backend listed for the instance cached under cacheKey,
\* empty when none is cached.
CachedCatalog(cacheKey) ==
    IF MapHas(clients, cacheKey) THEN conns[MapGet(clients, cacheKey).client].listed
    ELSE <<>>

\* The first entry of a catalog that carries the name, if there is one.
FirstNamed(tools, name) ==
    IF \E k \in 1..Len(tools) : NameOf(tools[k]) = name
    THEN <<tools[CHOOSE k \in 1..Len(tools) :
                    /\ NameOf(tools[k]) = name
                    /\ \A j \in 1..(k - 1) : NameOf(tools[j]) # name]>>
    ELSE <<>>

\* C22: getTools answers with the catalog of the instance cached under the
\* context's key, or with the empty sequence when none is cached or no
\* context is given; getTool answers with the first entry of that catalog
\* that has the name, or nothing; a step that answers either creates no
\* client, starts no call and leaves the Map as it was.
C22_ToolQueriesReadOnly ==
    [][/\ Answers("getTools") =>
             answer'.tools = IF answer'.given
                             THEN CachedCatalog(generateAuthCacheKey(answer'.authContext))
                             ELSE <<>>
       /\ Answers("getTool") =>
             answer'.tool = IF answer'.given
                            THEN FirstNamed(CachedCatalog(generateAuthCacheKey(answer'.authContext)),
                                            answer'.name)
                            ELSE <<>>
       /\ (Answers("getTools") \/ Answers("getTool")) =>
             /\ clients' = clients
             /\ conns' = conns
             /\ calls' = calls]_vars

\* C22 witness: getTool has answered with the first of two entries of the
\* cached catalog that carry the name it was asked for.
C22_Witness ==
    /\ answer.op = "getTool"
    /\ answer.given
    /\ answer.name = "list_projects"
    /\ answer.tool = <<"list_projects">>
    /\ CachedCatalog(generateAuthCacheKey(answer.authContext))
          = <<"list_projects", "list_projects (v2)">>

\* close has been called on client i: by the catch of its creation, by a
\* sweep or by a cleanup, settled or not.
CloseCalled(i) ==
    \/ CloseAttempted(i)
    \/ \E p \in DOMAIN calls : calls[p].pc = "close" /\ calls[p].client = i
    \/ \E s \in DOMAIN sweeps : sweeps[s].pc = "closing" /\ sweeps[s].closing = i
    \/ \E c \in DOMAIN cleanups : cleanups[c].pc = "closing" /\ cleanups[c].closing = i

\* C23: every instance that the completion of a sweep or of a cleanup takes
\* out of the pool is one on which close has been called before.
C23_ClosedBeforeRemoved ==
    [][((\E s \in 1..MaxSweeps : SweepCompletes(s))
          \/ (\E c \in 1..MaxCleanups : CleanupCompletes(c)))
       => \A i \in Pooled \ Pooled' : CloseCalled(i)]_vars

\* Call q is over: it has returned its instance or thrown.
Completed(q) == q \in DOMAIN calls /\ calls[q].pc \in {"returned", "threw"}

\* C24: whatever becomes of the creations for one key, those that never
\* complete included, every getOrCreateClient for another key completes,
\* and isReady and getTools can answer in every state.
C24_StuckCreationBlocksNoOtherKey ==
    /\ \A q \in Callers :
          [](((q \in DOMAIN calls) /\ calls[q].cacheKey # StuckKey) => <>Completed(q))
    /\ [](\A authContext \in SweepContexts :
             ENABLED IsReady(authContext) /\ ENABLED GetTools(authContext))

\* C24 witness: the first call is still at the handshake of its creation;
\* meanwhile a call for another key has created its instance, a later one
\* has been handed that instance from the cache, and isReady has answered
\* true for that key.
C24_Witness ==
    /\ Len(calls) = 3
    /\ calls[1].pc = "connect" /\ calls[1].cacheKey = StuckKey
    /\ calls[2].pc = "returned" /\ calls[2].cacheKey # StuckKey
    /\ calls[2].result = calls[2].client
    /\ calls[3].pc = "returned" /\ calls[3].client = 0
    /\ calls[3].result = calls[2].client
    /\ answer.op = "isReady" /\ answer.ready
    /\ generateAuthCacheKey(answer.authContext) = calls[2].cacheKey

\* The forward of request i failed at transport level or timed out.
ForwardFailed(i) == reqs[i].st \in {"failed", "destroyed", "aborted"}

\* The messages of the error lines written for message n.
MessagesFor(n) == {LineMessage(out[k]) : k \in LinesFor(n)}

\* C25: a request whose forward failed or timed out has an error line, and
\* every line it has carries code -32603, the id the client sent and the
\* reason of the failure as message; a notification whose forward failed
\* has no line.
C25_TransportFailure ==
    \A i \in DOMAIN reqs :
        ForwardFailed(i) =>
            IF HasNoId(reqs[i].msg) THEN LinesFor(reqs[i].msg) = {}
            ELSE /\ LinesFor(reqs[i].msg) # {}
                 /\ \A k \in LinesFor(reqs[i].msg) :
                       /\ LineCode(out[k]) = JNum(-32603)
                       /\ LineId(out[k]) = MessageId(reqs[i].msg)
                       /\ Keys(out[k].line) = {"jsonrpc", "id", "error"}
                 /\ MessagesFor(reqs[i].msg) \in
                       { {JStr("read ECONNRESET")}, {JStr("Timeout")},
                         {JStr("Timeout"), JStr("socket hang up")} }
                 /\ reqs[i].st \in {"destroyed", "aborted"} =>
                       MessagesFor(reqs[i].msg) = {JStr("Timeout")}

\* C25 witness: the connection of a request was reset and the line with the
\* reason was written; a notification timed out and nothing was written
\* for it.
C25_Witness ==
    \E i, j \in DOMAIN reqs :
        /\ HasId(reqs[i].msg) /\ reqs[i].st = "failed"
        /\ MessagesFor(reqs[i].msg) = {JStr("read ECONNRESET")}
        /\ HasNoId(reqs[j].msg) /\ reqs[j].st = "destroyed"
        /\ LinesFor(reqs[j].msg) = {}

\* The messages JSON.parse throws with.
ParseMessages == {"Unexpected token", "Unexpected end of JSON input"}

\* The lines written for request i are one line: the error -32700 with the
\* id the client sent and a message that starts "Invalid JSON response: ".
OnePayloadError(i) ==
    /\ Cardinality(LinesFor(reqs[i].msg)) = 1
    /\ \A k \in LinesFor(reqs[i].msg) :
          /\ LineCode(out[k]) = JNum(-32700)
          /\ LineId(out[k]) = MessageId(reqs[i].msg)
          /\ LineMessage(out[k]) \in
                {JStr("Invalid JSON response: " \o m) : m \in ParseMessages}

\* C26 as stated: an answer whose body is not empty and is not valid JSON
\* gives a request exactly one line, the error -32700 with the request's id
\* and a message starting "Invalid JSON response: ", and gives a
\* notification nothing.
C26_InvalidJsonResponse ==
    \A i \in DOMAIN reqs :
        (/\ reqs[i].st = "ended"
         /\ reqs[i].responseData # <<>>
         /\ ~JsonParse(reqs[i].responseData).ok) =>
            IF HasNoId(reqs[i].msg) THEN LinesFor(reqs[i].msg) = {}
            ELSE OnePayloadError(i)

\* C26 amended: an answer whose body has a character that is not a blank
\* and is not valid JSON gives a request exactly one line, the error -32700
\* with the request's id and a message starting "Invalid JSON response: ",
\* and gives a notification nothing.
C26_InvalidJsonResponseNotBlank ==
    \A i \in DOMAIN reqs :
        (/\ reqs[i].st = "ended"
         /\ ~IsBlank(reqs[i].responseData)
         /\ ~JsonParse(reqs[i].responseData).ok) =>
            IF HasNoId(reqs[i].msg) THEN LinesFor(reqs[i].msg) = {}
            ELSE OnePayloadError(i)

\* C26 witness: a request and a notification were both answered with text
\* that is no JSON; the request has its line and the notification has none.
C26_Witness ==
    \E i, j \in DOMAIN reqs :
        /\ HasId(reqs[i].msg) /\ reqs[i].st = "ended"
        /\ reqs[i].responseData = <<"x", "x">>
        /\ LinesFor(reqs[i].msg) # {}
        /\ HasNoId(reqs[j].msg) /\ reqs[j].st = "ended"
        /\ reqs[j].responseData = <<"x">>

\* Request i is in flight: sent and neither answered nor failed.
InFlight(i) == reqs[i].st \in {"sent", "receiving"}

\* A step in which the backend's reply to request i completes.
ReplyCompletes(i) == reqs[i].st = "receiving" /\ reqs'[i].st = "ended"

\* C27: when the reply to a request completes while another request is in
\* flight, the line for it is written in that step, whatever the state of
\* the other; the line carries the id of the request the reply was made to,
\* and, where the reply is a JSON document, its fields.
C27_RepliesCorrelated ==
    [][\A i \in DOMAIN reqs :
          (/\ ReplyCompletes(i)
           /\ HasId(reqs[i].msg)
           /\ \E j \in DOMAIN reqs : j # i /\ InFlight(j) /\ HasId(reqs[j].msg))
          => /\ Len(out') = Len(out) + 1
             /\ SubSeq(out', 1, Len(out)) = out
             /\ LET l == out'[Len(out')]
                    reply == JsonParse(reqs[i].responseData)
                IN /\ l.msg = reqs[i].msg
                   /\ LineId(l) = MessageId(reqs[i].msg)
                   /\ (reply.ok /\ CanRead(reply.value)) =>
                         \A key \in Keys(reply.value) \ {"id", "jsonrpc"} :
                            GetProp(l.line, key) = GetProp(reply.value, key)]_vars

\* The HTTP requests made for message n.
ForwardsOf(n) == {i \in DOMAIN reqs : reqs[i].msg = n}

\* C28: every line that parses as JSON has exactly one HTTP request, whose
\* body is the parsed message, whether it has an id or not and whatever
\* became of the request.
C28_ForwardedOnce ==
    \A n \in DOMAIN processed :
        MessageOf(n).ok =>
            /\ Cardinality(ForwardsOf(n)) = 1
            /\ \A i \in ForwardsOf(n) : reqs[i].postData = MessageOf(n).value

\* C29: a step that hands a getOrCreateClient its instance, or a callTool
\* the instance it goes on to invoke, never hands out one on whose client
\* close has been called.
C29_ClosedInstanceNotHandedOut ==
    [][\A p \in Callers :
          Retrieves(p) => ~CloseCalled(calls'[p].result)]_vars

\* C30: every client that was stored in the pool and on which close has not
\* been called is the instance the pool holds under its key.
C30_LiveClientsPooled ==
    \A c \in DOMAIN conns :
        (conns[c].fetched /\ ~CloseCalled(c)) =>
            /\ MapHas(clients, conns[c].key)
            /\ MapGet(clients, conns[c].key).client = c

\* The fields of a context as the key counts them: an absent transport type
\* is stdio, an absent organization or server URL is the empty text.
FieldsOf(authContext) ==
    << authContext.azureDevOpsOrg,
       IF authContext.mcpTransportType = <<>> THEN <<"stdio">>
       ELSE authContext.mcpTransportType,
       authContext.mcpServerUrl >>

\* C31: two calls have the same cache key exactly when their contexts agree
\* on organization, transport type and server URL, and two calls whose
\* contexts differ in one of them are never handed the same instance.
C31_KeyInjective ==
    \A p, q \in DOMAIN calls :
        (calls[p].cacheKey # <<>> /\ calls[q].cacheKey # <<>>) =>
            /\ (calls[p].cacheKey = calls[q].cacheKey)
                  <=> (FieldsOf(calls[p].authContext) = FieldsOf(calls[q].authContext))
            /\ (calls[p].result # 0 /\ calls[p].result = calls[q].result)
                  => FieldsOf(calls[p].authContext) = FieldsOf(calls[q].authContext)

\* The batch requests that entered the for loop over the tools array and
\* were answered.
BatchAnswered(h) ==
    /\ handlers[h].route = "batch"
    /\ handlers[h].entered
    /\ handlers[h].pc = "done"

\* C32: a batch whose tools array was walked is answered with success and
\* one result per item in the array's order, never with an error response;
\* the result of an item whose tool the catalog lacks or whose call threw
\* has success false and an error message, and every item was reached.
C32_BatchOneResultPerItem ==
    \A h \in DOMAIN handlers :
        BatchAnswered(h) =>
            /\ handlers[h].status = 200
            /\ handlers[h].success
            /\ handlers[h].pos = Len(handlers[h].tools)
            /\ Len(handlers[h].results) = Len(handlers[h].tools)
            /\ \A k \in DOMAIN handlers[h].results :
                  /\ handlers[h].results[k].toolName = GetProp(handlers[h].tools[k], "name")
                  /\ ~handlers[h].results[k].success => handlers[h].results[k].error # ""
                  /\ Find(ToolsOf(generateAuthCacheKey(handlers[h].authContext)),
                          TextOf(GetProp(handlers[h].tools[k], "name"))) = <<>>
                        => ~handlers[h].results[k].success

\* The code of the error of a response, Undefined when it carries a result.
CodeOf(response) == GetProp(GetProp(response, "error"), "code")

\* What POST /api/mcp owes the message of request h, the organization being
\* required by the methods of needOrg.
McpAnswers(h, needOrg) ==
    LET r == handlers[h]
        method == GetProp(r.body, "method")
        valid == GetProp(r.body, "jsonrpc") = JStr("2.0")
        known == method \in {JStr("initialize"), JStr("tools/list"), JStr("tools/call")}
    IN /\ r.pc # "threw"
       /\ r.sent = IF r.pc = "done" THEN 1 ELSE 0
       /\ r.pc = "done" =>
             /\ GetProp(r.response, "jsonrpc") = JStr("2.0")
             /\ GetProp(r.response, "id") = GetProp(r.body, "id")
             /\ (GetProp(r.response, "error") = Undefined)
                   # (GetProp(r.response, "result") = Undefined)
             /\ ~valid => CodeOf(r.response) = JNum(-32600)
             /\ (valid /\ ~known) => CodeOf(r.response) = JNum(-32601)
             /\ (valid /\ method.text \in needOrg /\ r.authContext.azureDevOpsOrg = Absent)
                   => CodeOf(r.response) = JNum(-32603)
             /\ (r.call # 0 /\ calls[r.call].pc = "threw")
                   => CodeOf(r.response) = JNum(-32603)
             /\ (r.entered /\ r.pos = 0)
                   => /\ CodeOf(r.response) = JNum(-32602)
                      /\ calls[r.call].tool = ""
             /\ (r.entered /\ r.pos = 1) => CodeOf(r.response) # JNum(-32602)

\* C33: POST /api/mcp answers every message once with a JSON-RPC object of
\* the message's id: -32600 for a jsonrpc other than "2.0", -32601 for an
\* unknown method, -32602 for a tool the catalog lacks, without a tool call,
\* -32603 for a missing organization, a failed creation or a failed tool
\* call; no message is left to an error that escapes the handler.
C33_McpAnswersEveryMessage ==
    \A h \in DOMAIN handlers :
        handlers[h].route = "mcp" =>
            McpAnswers(h, {"initialize", "tools/list", "tools/call"})

\* C33 as the route keeps it: the organization is required by tools/list
\* and tools/call only, and initialize without an organization is answered
\* with its result.
C33_McpAnswersOrgForTools ==
    \A h \in DOMAIN handlers :
        handlers[h].route = "mcp" =>
            /\ McpAnswers(h, {"tools/list", "tools/call"})
            /\ ( /\ handlers[h].pc = "done"
                 /\ GetProp(handlers[h].body, "jsonrpc") = JStr("2.0")
                 /\ GetProp(handlers[h].body, "method") = JStr("initialize")
                 /\ handlers[h].authContext.azureDevOpsOrg = Absent )
                  => GetProp(handlers[h].response, "result") # Undefined

\* A tools/call message with an id whose tool the ready client lists and
\* whose tool call threw, answered with -32603.
C33_Witness ==
    \E h \in DOMAIN handlers :
        /\ handlers[h].route = "mcp"
        /\ handlers[h].pc = "done"
        /\ GetProp(handlers[h].body, "id") = JNum(1)
        /\ GetProp(handlers[h].body, "method") = JStr("tools/call")
        /\ handlers[h].entered
        /\ handlers[h].pos = 1
        /\ calls[handlers[h].call].tool = "list_projects"
        /\ calls[handlers[h].call].pc = "threw"
        /\ CodeOf(handlers[h].response) = JNum(-32603)

\* C34: from the end of the input on nothing is processed, forwarded or
\* written: the text left in the buffer stays there, and the requests still
\* waiting for the backend get no line.
C34_NothingAfterEndOfInput ==
    [][exited' =>
          /\ messageBuffer' = messageBuffer
          /\ processed' = processed
          /\ reqs' = reqs
          /\ out' = out]_vars

\* The input has ended with a request text left in the buffer and a
\* forwarded request still waiting for the backend.
C34_Witness ==
    /\ exited
    /\ Trim(messageBuffer) # <<>>
    /\ \E i \in DOMAIN reqs : InFlight(i)

====
